---- MODULE Spec2Model ----
(***************************************************************************)
(* DocSmart backend: the durable job table (processing_jobs), the two      *)
(* storage buckets (raw-inputs, processed-pdfs), the worker loop of        *)
(* src/worker.js, the proxied download route with the edge function        *)
(* increment-access-and-cleanup, and DELETE /delete-processed-file; and    *)
(* the in-process job map of lib/fileCache with POST /process-pdf and the  *)
(* periodic cleanup service.                                               *)
(*                                                                         *)
(* Every await of the source that reaches the database or the storage is   *)
(* one step, so that concurrent handlers interleave at the same places as  *)
(* in the program.  A repository call that the worker does not await is a  *)
(* request in flight: it reaches the table at any later moment.            *)
(***************************************************************************)
EXTENDS Integers, Sequences, FiniteSets, Bags, TLC

\* ---------------------------------------------------------------- bounds
NumJobs == 2
NumWorkers == 2
MaxInputs == 2
MaxParts == 2
NumReq == 4
NumPosts == 2
MaxStarts == 2
MaxTime == 21
NumSecrets == 2
NumUuids == 2
MaxRuns == 2
MaxPage == 3
NumNames == 2

JobIds == 1..NumJobs
Workers == 1..NumWorkers
PostIds == 1..NumPosts

\* ------------------------------------------------------------- constants
NoWorker == 0
NoJob == 0
NullProgress == -1
NoError == ""
\* merge: if (filesToProcess.length < 2) throw
MergeMinFiles == 2
\* edge function: if (newAccessCount <= 3) increment, else delete
MaxAccess == 3
\* lib/fileCache, in minutes: const CLEANUP_INTERVAL = 10 * 60 * 1000
CLEANUP_INTERVAL == 10
\* const JOB_ACCESS_PERIOD = 10 * 60 * 1000
JOB_ACCESS_PERIOD == 10
\* POST /process-pdf: deleteAt: Date.now() + (10 * 60 * 1000)
FILE_ACCESS_PERIOD == 10
NoTime == -1
NoSecret == 0
ACCESS_THRESHOLD == 3
\* incrementAccessCountAndCleanup: if (newAccessCount >= 3)
INCREMENT_LIMIT == 3
NoUuid == 0
NoName == 0

VARIABLES
  rows,        \* table processing_jobs: job id -> row
  processed,   \* bucket processed-pdfs: the paths [job, name] that hold an object
  rawInputs,   \* bucket raw-inputs: <<job, i>> is the i-th input_file_paths entry
  localFiles,  \* os.tmpdir() of the worker host: <<worker, job, i>>
  jobArgs,     \* tool_id, input_file_paths and options of each job (never change)
  pc,          \* worker -> position in workerLoop / executePdfProcessing
  cur,         \* worker -> the job passed to executePdfProcessing
  step,        \* worker -> index into the tool's script, or into filesToProcess
  files,       \* worker -> Len(filesToProcess)
  err,         \* worker -> message of the error caught, NoError if none
  outName,     \* worker -> finalOutputFileName
  inflight,    \* repository updates issued without await, not yet at the table
  subproc,     \* worker -> state of the subprocess its handler spawned
  execCount,   \* history: job -> number of executePdfProcessing calls for it
  claimers,    \* history: job -> workers that got it from getPendingJobAndLock
  finished,    \* history: jobs whose executePdfProcessing has returned
  thrown,      \* history: job -> message of the error thrown while processing it
  issued,      \* history: job -> terminal updates the worker issued for it
  rawDelIssued,\* history: <<job, i>> for which a raw-inputs delete was issued
  reqs,        \* bag of the HTTP requests being handled (GET /download-proxied-file,
               \* DELETE /delete-processed-file), each with its local variables
  nStarted,    \* number of requests received so far
  edgeOk,      \* history: job -> edge function responses {success, access_count}
  n200,        \* history: job -> downloads answered 200 with the artifact
  n410,        \* history: job -> downloads answered 410
  nDone,       \* history: job -> downloads answered
  faulted,     \* history: jobs for which a database, storage or fetch call failed
  overlapped,  \* history: jobs that had two requests open at once, or a DELETE
               \* or PATCH request
  storageErr,  \* history: jobs whose artifact removal reported an error
  nGet,        \* history: job -> GET /download-proxied-file requests received
  n404,        \* history: job -> downloads answered 404 by the route itself
  edgeCalls,   \* history: job -> invocations of the edge function
  delHist,     \* history: job -> answers of DELETE /delete-processed-file
  now,         \* Date.now() of the web process, in minutes since it started
  processingJobs,    \* lib/fileCache: Map jobId -> {status, progress, timestamp}
  processedFilesCache, \* lib/fileCache: the cache entry of a job's output file
  cleanupIntervalId, \* globalThis[CLEANUP_INTERVAL_ID_KEY] is set
  timers,      \* number of setInterval timers of the process
  nextTick,    \* time at which the cleanup timer fires next
  startCalls,  \* history: number of startCleanupService calls
  posts,       \* history: POST /process-pdf requests and their answers
  apc,         \* position of the asynchronous part of each POST
  saved,       \* Len(filesToProcess) of the asynchronous part of each POST
  scenario,    \* the request or job whose log output is followed, and its outcome
  secretOf,    \* run -> the password and the Authorization value of that run
  lpc,         \* run -> position in the handler
  logs,        \* run -> the lines written to console, in order
  stored,      \* run -> the error message stored for the job
  fileEntry,   \* file id -> the entry of the output file in processedFilesCache
  onDisk,      \* file id -> whether the file of that entry exists on disk
  gets,        \* bag of the GET /download-processed-file requests being handled
  nGets,       \* number of such requests received so far
  served,      \* history: file id -> number of them answered 200 with the file
  pageRange,   \* split: the items of options.pageRange, in order
  rangesToSplit, \* split: the 0-indexed inclusive ranges parsed from it
  entries,     \* split: the names of the entries appended to the ZIP archive
  spc,         \* split: position in the case
  scratch,     \* os.tmpdir() of the worker host: the output paths of the handlers
               \* that hold a file or a directory
  incRet,      \* history: job -> what the calls of incrementAccessCountAndCleanup
               \* returned, in order
  gsArgs       \* worker -> preset and tweak of its last Ghostscript invocation

dbVars == <<rows, processed, rawInputs, jobArgs>>
workerVars == <<localFiles, pc, cur, step, files, err, outName, inflight, subproc>>
histVars == <<execCount, claimers, finished, thrown, issued, rawDelIssued>>
ghostVars == <<nGet, n404, edgeCalls, delHist>>
dlVars == <<reqs, nStarted, edgeOk, n200, n410, nDone, faulted, overlapped, storageErr,
           ghostVars>>
memVars == <<now, processingJobs, processedFilesCache, cleanupIntervalId, timers, nextTick,
            startCalls, posts, apc, saved>>
logVars == <<scenario, secretOf, lpc, logs, stored>>
cacheVars == <<fileEntry, onDisk, gets, nGets, served>>
splitVars == <<pageRange, rangesToSplit, entries, spc>>
auxVars == <<logVars, cacheVars, splitVars, scratch, incRet, gsArgs>>
vars == <<dbVars, workerVars, histVars, dlVars, memVars, auxVars>>

\* ------------------------------------------------------------- job rows
NullName == [base |-> "", orig |-> NoName, uuid |-> NoUuid, id8 |-> NoJob, ext |-> ""]
NullUrl == [bucket |-> "", job |-> NoJob, name |-> NullName]

AbsentRow ==
  [exists |-> FALSE, status |-> "absent", progress |-> 0, worker_id |-> NoWorker,
   file_name |-> NullName, public_url |-> NullUrl, error_message |-> NoError,
   access_count |-> 0, file_size |-> FALSE]

\* addProcessingJob: status pending, progress 0; the other columns at their defaults.
PendingRow ==
  [exists |-> TRUE, status |-> "pending", progress |-> 0, worker_id |-> NoWorker,
   file_name |-> NullName, public_url |-> NullUrl, error_message |-> NoError,
   access_count |-> 0, file_size |-> FALSE]

Terminal(s) == s \in {"succeeded", "failed"}

\* The argument list of one updateProcessingJobStatus call.
Update(j, status, progress, fileName, publicUrl, errorMessage) ==
  [job |-> j, status |-> status, progress |-> progress, file_name |-> fileName,
   public_url |-> publicUrl, error_message |-> errorMessage]

\* updateProcessingJobStatus: status always, the other columns only when the
\* argument is not null; .eq('id', jobId) matches no row once the row is deleted.
updateProcessingJobStatus(r, u) ==
  IF ~r.exists THEN r
  ELSE [r EXCEPT
          !.status = u.status,
          !.progress = IF u.progress # NullProgress THEN u.progress ELSE @,
          !.file_name = IF u.file_name # NullName THEN u.file_name ELSE @,
          !.public_url = IF u.public_url # NullUrl THEN u.public_url ELSE @,
          !.error_message = IF u.error_message # NoError THEN u.error_message ELSE @]

\* The table after one update request: applied, or answered with an error
\* (the function then returns {success: false} and the row is as before).
\* The error answer is enumerated for the two terminal updates, whose result
\* decides what the job table says about a finished job; a progress update,
\* a file_size write and a storage delete are taken to go through.
DbUpdate(u, ok) ==
  IF ok THEN [rows EXCEPT ![u.job] = updateProcessingJobStatus(@, u)] ELSE rows

\* ------------------------------------------------------------ tool scripts
\* The cases of the switch on toolId that the tool table of the service lists.
Tools ==
  {"merge", "split", "rotate", "remove", "img2pdf", "pdf2img", "pdfToWord", "docxToPdf",
   "protectPdf", "unlockPdf", "addWatermark", "addPageNumbers", "repairPdf", "compress"}

\* The jobs a client can have submitted (with at least one file): tool, number
\* of input files, and what of the options and of the input decides the
\* control flow of the handler.
\*   parts    - split: number of ranges in pageRange; pdf2img: number of pages
\*   rangeOk  - split: pageRange passes the validation of lines 392-420
\*   password - protectPdf, unlockPdf: options.password is a non-empty string
\*   pages    - rotate: options.pages and options.angle are given;
\*              remove: options.pages is given
\*   level    - compress: options.compressionLevel; not given, one of the three
\*              levels, or any other string
\*   fname    - path.basename of the first input's storage path
JobArgSet ==
  [tool : {"merge", "img2pdf", "pdfToWord", "docxToPdf", "addWatermark", "addPageNumbers",
           "repairPdf"},
   nIn : 1..MaxInputs, parts : {1}, rangeOk : {TRUE}, password : {FALSE}, pages : {FALSE},
   level : {"absent"}, fname : {1}]
  \cup [tool : {"split"}, nIn : {1}, parts : 1..MaxParts, rangeOk : BOOLEAN,
        password : {FALSE}, pages : {FALSE}, level : {"absent"}, fname : {1}]
  \cup [tool : {"pdf2img"}, nIn : {1}, parts : 1..MaxParts, rangeOk : {TRUE},
        password : {FALSE}, pages : {FALSE}, level : {"absent"}, fname : {1}]
  \cup [tool : {"protectPdf", "unlockPdf"}, nIn : {1}, parts : {1}, rangeOk : {TRUE},
        password : BOOLEAN, pages : {FALSE}, level : {"absent"}, fname : {1}]
  \cup [tool : {"rotate", "remove"}, nIn : {1}, parts : {1}, rangeOk : {TRUE},
        password : {FALSE}, pages : BOOLEAN, level : {"absent"}, fname : {1}]
  \cup [tool : {"compress"}, nIn : {1}, parts : {1}, rangeOk : {TRUE},
        password : {FALSE}, pages : {FALSE},
        level : {"absent", "low", "medium", "extreme", "other"}, fname : {1}]
  \cup [tool : {"split", "pdf2img", "protectPdf", "unlockPdf", "rotate", "remove", "compress"},
        nIn : {2}, parts : {1}, rangeOk : {TRUE}, password : {TRUE}, pages : {TRUE},
        level : {"absent"}, fname : {1}]

Check(ok, msg) == [kind |-> "check", ok |-> ok, p |-> NullProgress, msg |-> msg]
Await(p) == [kind |-> "await", ok |-> TRUE, p |-> p, msg |-> NoError]
Fire(p) == [kind |-> "fire", ok |-> TRUE, p |-> p, msg |-> NoError]
Call(msg) == [kind |-> "call", ok |-> TRUE, p |-> NullProgress, msg |-> msg]
Spawn(msg) == [kind |-> "spawn", ok |-> TRUE, p |-> NullProgress, msg |-> msg]

\* 20 + Math.floor((index + 1) / splitPdfs.length * 60), index from 0
SplitProgress(i, n) == 20 + ((i * 60) \div n)
\* 40 + Math.floor((index + 1) / images.length * 40), index from 0
Pdf2ImgProgress(i, n) == 40 + ((i * 40) \div n)

\* The statements of one case of the switch, in program order: a check that
\* throws, an awaited progress update, a progress update that is not awaited,
\* a call of a library or of fs that can throw, and a call that spawns a
\* subprocess and waits for its close event.  The case img2pdf checks nothing.
Script(a) ==
  CASE a.tool = "merge" ->
         << Check(a.nIn >= MergeMinFiles, "Merging requires at least two PDF files."),
            Await(20), Call("merge failed"), Await(80) >>
    [] a.tool = "split" ->
         << Check(a.nIn = 1, "Splitting requires exactly one PDF file."),
            Call("Input PDF file is empty or corrupted."),
            Check(a.rangeOk, "Invalid range format"),
            Await(20), Call("Splitting resulted in no pages.") >>
         \o (IF a.parts > 1
               THEN [i \in 1..a.parts |-> Fire(SplitProgress(i, a.parts))]
                    \o << Call("archive error") >>
               ELSE << >>)
         \o << Await(80) >>
    [] a.tool = "rotate" ->
         << Check(a.nIn = 1, "Rotating requires exactly one PDF file."),
            Check(a.pages, "Pages and angle are required for rotation."),
            Await(20), Call("rotate failed"), Await(80) >>
    [] a.tool = "remove" ->
         << Check(a.nIn = 1, "Removing pages requires exactly one PDF file."),
            Check(a.pages, "Pages to remove are required."),
            Await(20), Call("remove failed"), Await(80) >>
    [] a.tool = "img2pdf" ->
         << Await(20), Call("img2pdf failed"), Await(80) >>
    [] a.tool = "pdf2img" ->
         << Check(a.nIn = 1, "PDF to image conversion requires exactly one PDF file."),
            Await(20), Call("Conversion to images resulted in no output."),
            Fire(40) >>
         \o [i \in 1..a.parts |-> Fire(Pdf2ImgProgress(i, a.parts))]
         \o << Call("archive error"), Await(80) >>
    [] a.tool = "pdfToWord" ->
         << Check(a.nIn = 1, "PDF to Word conversion requires exactly one PDF file."),
            Await(20), Spawn("PDF to Word conversion failed"), Await(80) >>
    [] a.tool = "repairPdf" ->
         << Check(a.nIn = 1, "PDF repair requires exactly one PDF file."),
            Await(20), Spawn("PDF repair failed"), Await(80) >>
    [] a.tool = "protectPdf" ->
         << Check(a.nIn = 1, "Protecting a PDF requires exactly one file."),
            Check(a.password, "Password is required to protect the PDF."),
            Await(20), Spawn("PDF protect failed"), Await(80) >>
    [] a.tool = "unlockPdf" ->
         << Check(a.nIn = 1, "Unlocking a PDF requires exactly one file."),
            Check(a.password, "Password is required to unlock the PDF."),
            Fire(20), Spawn("PDF unlock failed"), Fire(80) >>
    [] a.tool = "addWatermark" ->
         << Check(a.nIn = 1, "Adding a watermark requires exactly one PDF file."),
            Fire(20), Spawn("Adding watermark failed"), Fire(80) >>
    [] a.tool = "addPageNumbers" ->
         << Check(a.nIn = 1, "Adding page numbers requires exactly one PDF file."),
            Fire(20), Spawn("Adding page numbers failed"), Fire(80),
            Call("ENOENT: no such file or directory") >>
    [] a.tool = "docxToPdf" ->
         << Check(a.nIn = 1, "DOCX to PDF conversion requires exactly one DOCX file."),
            Fire(20), Spawn("DOCX to PDF conversion failed"), Fire(80) >>
    [] a.tool = "compress" ->
         << Check(a.nIn = 1, "Compressing requires exactly one PDF file."),
            Await(20), Spawn("Ghostscript exited"), Await(80),
            Call("ENOENT: no such file or directory") >>

\* baseProcessedFileName and finalOutputExtension of each case; for a base that
\* starts with _ the name of the input file comes before it.
BaseName(a) ==
  CASE a.tool = "merge" -> "merged_documents"
    [] a.tool = "split" -> IF a.parts > 1 THEN "split_documents" ELSE "split_document"
    [] a.tool = "rotate" -> "rotated_document"
    [] a.tool = "remove" -> "document_with_removed_pages"
    [] a.tool = "img2pdf" -> "DocSmart"
    [] a.tool = "pdf2img" -> "converted_images"
    [] a.tool \in {"pdfToWord", "docxToPdf"} -> "_converted"
    [] a.tool = "repairPdf" -> "_repaired"
    [] a.tool = "protectPdf" -> "protect"
    [] a.tool = "unlockPdf" -> "unlock"
    [] a.tool = "addWatermark" -> "_watermarked"
    [] a.tool = "addPageNumbers" -> "_numbered"
    [] a.tool = "compress" -> "_compressed"

Extension(a) ==
  IF (a.tool = "split" /\ a.parts > 1) \/ a.tool = "pdf2img" THEN ".zip"
  ELSE IF a.tool = "pdfToWord" THEN ".docx" ELSE ".pdf"

\* `DocSmart_${baseProcessedFileName}_${jobId.substring(0, 8)}${finalOutputExtension}`
\* with the uuid that is part of baseProcessedFileName left open.
FinalOutputFileName(j, a) ==
  [base |-> BaseName(a), orig |-> IF a.tool \in {"pdfToWord", "docxToPdf", "addWatermark", "addPageNumbers",
                             "repairPdf", "compress"}
               THEN a.fname ELSE NoName,
   uuid |-> NoUuid, id8 |-> j, ext |-> Extension(a)]

\* processPdfSecurityWithPython names its output `${action}_${uuidv4()}.pdf`,
\* and the cases protectPdf and unlockPdf take baseProcessedFileName from it:
\* the names one run of the job can give its output.
Uuids == 1..NumUuids
OutputFileNames(j, a) ==
  IF a.tool \in {"protectPdf", "unlockPdf"}
    THEN {[FinalOutputFileName(j, a) EXCEPT !.uuid = u] : u \in Uuids}
    ELSE {FinalOutputFileName(j, a)}

\* uploadProcessedFile: the object path public/{jobId}/{fileName} and its public URL.
ProcessedPath(j, name) == [job |-> j, name |-> name]
PublicUrl(j, name) == [bucket |-> "processed-pdfs", job |-> j, name |-> name]

\* case compress: const { compressionLevel = 'medium' } = options || {}, then
\* the if / else if / else that selects the profile passed to Ghostscript.
NoProfile == [preset |-> "", jpegQ |-> 0, colorDpi |-> 0, grayDpi |-> 0, monoDpi |-> 0]
GsProfile_noDefault(level) ==
  IF level = "extreme"
    THEN [preset |-> "screen", jpegQ |-> 25, colorDpi |-> 36, grayDpi |-> 36, monoDpi |-> 100]
  ELSE IF level = "medium"
    THEN [preset |-> "ebook", jpegQ |-> 70, colorDpi |-> 120, grayDpi |-> 120, monoDpi |-> 300]
  ELSE [preset |-> "printer", jpegQ |-> 100, colorDpi |-> 300, grayDpi |-> 300, monoDpi |-> 300]
GsProfile(level) ==
  LET compressionLevel == IF level = "absent" THEN "medium" ELSE level IN
    IF compressionLevel = "extreme"
      THEN [preset |-> "screen", jpegQ |-> 25, colorDpi |-> 36, grayDpi |-> 36, monoDpi |-> 100]
    ELSE IF compressionLevel = "medium"
      THEN [preset |-> "ebook", jpegQ |-> 70, colorDpi |-> 120, grayDpi |-> 120, monoDpi |-> 300]
    ELSE [preset |-> "printer", jpegQ |-> 100, colorDpi |-> 300, grayDpi |-> 300, monoDpi |-> 300]

\* The path under os.tmpdir() that the subprocess of the handler writes to:
\*   compress                       compressed_${jobId}.pdf
\*   protectPdf, unlockPdf          ${action}_${uuidv4()}.pdf
\*   pdfToWord, repairPdf, docxToPdf  the directory ..._py_output_${uuidv4()}
\*   addWatermark                   ${name of the input}_watermarked.pdf
\*   addPageNumbers                 ${name of the input}_numbered.pdf
\* A uuid is drawn by the call and no two calls draw the same: the path holds
\* the job of the call in its place.
ScratchPath(j, a) ==
  IF a.tool \in {"addWatermark", "addPageNumbers"}
    THEN [kind |-> BaseName(a), job |-> NoJob, orig |-> a.fname]
    ELSE [kind |-> a.tool, job |-> j, orig |-> NoName]

\* ------------------------------------------------------------------- Init
\* The state once the jobs in `submitted` have been inserted by addProcessingJob
\* with their raw inputs uploaded, and the workers have started.
InitWith(submitted, args) ==
  /\ jobArgs \in [JobIds -> args]
  /\ rows = [j \in JobIds |-> IF j \in submitted THEN PendingRow ELSE AbsentRow]
  /\ processed = {}
  /\ rawInputs = {x \in submitted \X (1..MaxInputs) : x[2] <= jobArgs[x[1]].nIn}
  /\ localFiles = {}
  /\ pc = [w \in Workers |-> "poll"]
  /\ cur = [w \in Workers |-> NoJob]
  /\ step = [w \in Workers |-> 0]
  /\ files = [w \in Workers |-> 0]
  /\ err = [w \in Workers |-> NoError]
  /\ outName = [w \in Workers |-> NullName]
  /\ inflight = {}
  /\ subproc = [w \in Workers |-> "none"]
  /\ scratch = {}
  /\ gsArgs = [w \in Workers |-> NoProfile]
  /\ execCount = [j \in JobIds |-> 0]
  /\ claimers = [j \in JobIds |-> {}]
  /\ finished = {}
  /\ thrown = [j \in JobIds |-> NoError]
  /\ issued = [j \in JobIds |-> {}]
  /\ rawDelIssued = {}

\* No HTTP request has been received.
InitRequests ==
  /\ reqs = EmptyBag
  /\ nStarted = 0
  /\ edgeOk = [j \in JobIds |-> 0]
  /\ n200 = [j \in JobIds |-> 0]
  /\ n410 = [j \in JobIds |-> 0]
  /\ nDone = [j \in JobIds |-> 0]
  /\ faulted = {}
  /\ overlapped = {}
  /\ storageErr = {}
  /\ nGet = [j \in JobIds |-> 0]
  /\ n404 = [j \in JobIds |-> 0]
  /\ edgeCalls = [j \in JobIds |-> 0]
  /\ delHist = [j \in JobIds |-> "none"]
  /\ incRet = [j \in JobIds |-> << >>]

\* The web process has just started: no module of it is loaded yet.
NoJobData == [exists |-> FALSE, status |-> "none", progress |-> 0, timestamp |-> NoTime]
NoFileData == [exists |-> FALSE, deleteAt |-> NoTime]
NoPost == [received |-> FALSE, toolId |-> FALSE, nFiles |-> 0, code |-> 0, added |-> FALSE]

InitMem ==
  /\ now = 0
  /\ processingJobs = [id \in PostIds |-> NoJobData]
  /\ processedFilesCache = [id \in PostIds |-> NoFileData]
  /\ cleanupIntervalId = FALSE
  /\ timers = 0
  /\ nextTick = NoTime
  /\ startCalls = 0
  /\ posts = [id \in PostIds |-> NoPost]
  /\ apc = [id \in PostIds |-> "none"]
  /\ saved = [id \in PostIds |-> 0]

\* ------------------------------------------------------------ log output
\* What a handler writes to console and stores as error message, followed for
\* two runs of the same request or job that differ only in the secret values:
\* the password among the options and the value of the Authorization header.
Runs == {"a", "b"}
Secrets == 1..NumSecrets
Scenarios == [tool : {"download", "compress", "unlock"}, fails : BOOLEAN]
IdleScenario == [tool |-> "none", fails |-> FALSE]

\* A line of output: its fixed text and the secret value interpolated in it,
\* NoSecret when the line holds none.
Line(text, value) == [text |-> text, value |-> value]

\* No run is followed.
LogIdle ==
  /\ scenario = IdleScenario
  /\ secretOf = [r \in Runs |-> [password |-> NoSecret, auth |-> NoSecret]]
  /\ lpc = [r \in Runs |-> "done"]
  /\ logs = [r \in Runs |-> << >>]
  /\ stored = [r \in Runs |-> NoError]

\* processedFilesCache holds no entry yet and no download has been asked for.
CacheIdle ==
  /\ fileEntry = [f \in PostIds |-> [inCache |-> FALSE, accessCount |-> 0]]
  /\ onDisk = [f \in PostIds |-> FALSE]
  /\ gets = EmptyBag
  /\ nGets = 0
  /\ served = [f \in PostIds |-> 0]

\* No split is being processed.
SplitIdle ==
  /\ pageRange = << >>
  /\ rangesToSplit = << >>
  /\ entries = << >>
  /\ spc = "idle"

InitAux == LogIdle /\ CacheIdle /\ SplitIdle

\* One job of any tool is in the queue.
FirstJob == CHOOSE j \in JobIds : \A k \in JobIds : j <= k
DefaultArgs == CHOOSE a \in JobArgSet : a.tool = "merge" /\ a.nIn = 1
Init ==
  /\ InitWith({FirstJob}, JobArgSet)
  /\ InitRequests
  /\ InitMem
  /\ InitAux
  /\ \A j \in JobIds \ {FirstJob} : jobArgs[j] = DefaultArgs

\* Every job id is in the queue, each a merge of two files.
InitClaim ==
  /\ InitWith(JobIds, {a \in JobArgSet : a.tool = "merge" /\ a.nIn = MergeMinFiles})
  /\ InitRequests
  /\ InitMem
  /\ InitAux

\* ------------------------------------------------------------ worker loop
\* The job the stored procedure get_and_lock_pending_job selects: one row with
\* status pending, the oldest first (job ids are in order of created_at).
PendingJobs == {j \in JobIds : rows[j].exists /\ rows[j].status = "pending"}

get_and_lock_pending_job_racy == 
  LET open == {j \in JobIds : rows[j].exists /\ rows[j].status \in {"pending", "in_progress"}}
  IN IF open = {} THEN NoJob ELSE CHOOSE j \in open : \A k \in open : j <= k

get_and_lock_pending_job ==
  IF PendingJobs = {} THEN NoJob
  ELSE CHOOSE j \in PendingJobs : \A k \in PendingJobs : j <= k

\* workerLoop: getPendingJobAndLock returned a job; the row is in_progress and
\* carries the worker's id, and executePdfProcessing(job) starts.  With no job,
\* or with an error, the loop sleeps POLL_INTERVAL and changes nothing.
WorkerPoll(w) ==
  /\ pc[w] = "poll"
  /\ LET j == get_and_lock_pending_job IN
       /\ j # NoJob
       /\ rows' = [rows EXCEPT ![j].status = "in_progress", ![j].worker_id = w]
       /\ cur' = [cur EXCEPT ![w] = j]
       /\ claimers' = [claimers EXCEPT ![j] = @ \cup {w}]
       /\ execCount' = [execCount EXCEPT ![j] = @ + 1]
  /\ pc' = [pc EXCEPT ![w] = "download"]
  /\ files' = [files EXCEPT ![w] = 0]
  /\ err' = [err EXCEPT ![w] = NoError]
  /\ UNCHANGED <<processed, rawInputs, jobArgs, localFiles, step, outName, inflight,
                 finished, thrown, issued, rawDelIssued>>
  /\ UNCHANGED <<dlVars, memVars, auxVars, subproc>>

\* The throw of a statement inside the try block: control goes to catch.
Throw(w, msg) ==
  /\ pc' = [pc EXCEPT ![w] = "catch"]
  /\ err' = [err EXCEPT ![w] = msg]
  /\ thrown' = [thrown EXCEPT ![cur[w]] = msg]

\* One iteration of the download loop: downloadFileFromSupabase either writes
\* the local file, and the file is pushed to filesToProcess, or throws.  After
\* the last input the worker goes on to its first progress update.
WorkerDownload(w) ==
  /\ pc[w] = "download"
  /\ files[w] < jobArgs[cur[w]].nIn
  /\ LET j == cur[w]
         i == files[w] + 1
     IN \E ok \in BOOLEAN :
          IF ok /\ <<j, i>> \in rawInputs
            THEN /\ files' = [files EXCEPT ![w] = i]
                 /\ localFiles' = localFiles \cup {<<w, j, i>>}
                 /\ pc' = [pc EXCEPT ![w] = IF i = jobArgs[j].nIn THEN "upd10" ELSE "download"]
                 /\ UNCHANGED <<err, thrown>>
            ELSE /\ Throw(w, "Failed to download file from storage")
                 /\ UNCHANGED <<files, localFiles>>
  /\ UNCHANGED <<dbVars, cur, step, outName, inflight, execCount, claimers, finished,
                 issued, rawDelIssued>>
  /\ UNCHANGED <<dlVars, memVars, auxVars, subproc>>

\* await updateProcessingJobStatus(jobId, 'in_progress', 10)
WorkerUpd10(w) ==
  /\ pc[w] = "upd10"
  /\ rows' = DbUpdate(Update(cur[w], "in_progress", 10, NullName, NullUrl, NoError), TRUE)
  /\ pc' = [pc EXCEPT ![w] = "tool"]
  /\ step' = [step EXCEPT ![w] = 1]
  /\ UNCHANGED <<processed, rawInputs, jobArgs, localFiles, cur, files, err, outName,
                 inflight, histVars>>
  /\ UNCHANGED <<dlVars, memVars, auxVars, subproc>>

\* The statement of the tool's case the worker is at.
Op(w) == Script(jobArgs[cur[w]])[step[w]]
AtOp(w, kind) ==
  /\ pc[w] = "tool"
  /\ step[w] <= Len(Script(jobArgs[cur[w]]))
  /\ Op(w).kind = kind

\* After the last statement of the case comes the upload.
Advance(w) ==
  IF step[w] = Len(Script(jobArgs[cur[w]]))
    THEN /\ pc' = [pc EXCEPT ![w] = "upload"]
         /\ step' = step
    ELSE /\ pc' = pc
         /\ step' = [step EXCEPT ![w] = @ + 1]

\* if (...) throw new Error(...): arity and option checks of the case.
WorkerCheck(w) ==
  /\ AtOp(w, "check")
  /\ IF Op(w).ok
       THEN Advance(w) /\ UNCHANGED <<err, thrown>>
       ELSE Throw(w, Op(w).msg) /\ UNCHANGED step
  /\ UNCHANGED <<dbVars, localFiles, cur, files, outName, inflight, execCount, claimers,
                 finished, issued, rawDelIssued>>
  /\ UNCHANGED <<dlVars, memVars, auxVars, subproc>>

\* await updateProcessingJobStatus(jobId, 'in_progress', p)
WorkerAwaitUpdate(w) ==
  /\ AtOp(w, "await")
  /\ rows' = DbUpdate(Update(cur[w], "in_progress", Op(w).p, NullName, NullUrl, NoError), TRUE)
  /\ Advance(w)
  /\ UNCHANGED <<processed, rawInputs, jobArgs, localFiles, cur, files, err, outName,
                 inflight, histVars>>
  /\ UNCHANGED <<dlVars, memVars, auxVars, subproc>>

\* updateProcessingJobStatus(jobId, 'in_progress', p) without await: the request
\* is on its way and the worker goes on.
WorkerFireUpdate(w) ==
  /\ AtOp(w, "fire")
  /\ inflight' = inflight \cup
       {[u |-> Update(cur[w], "in_progress", Op(w).p, NullName, NullUrl, NoError),
         k |-> step[w]]}
  /\ Advance(w)
  /\ UNCHANGED <<dbVars, localFiles, cur, files, err, outName, histVars>>
  /\ UNCHANGED <<dlVars, memVars, auxVars, subproc>>

\* A library call of the handler returns or throws.
WorkerCall(w) ==
  /\ AtOp(w, "call")
  /\ \E ok \in BOOLEAN :
       IF ok THEN Advance(w) /\ UNCHANGED <<err, thrown>>
             ELSE Throw(w, Op(w).msg) /\ UNCHANGED step
  /\ UNCHANGED <<dbVars, localFiles, cur, files, outName, inflight, execCount, claimers,
                 finished, issued, rawDelIssued>>
  /\ UNCHANGED <<dlVars, memVars, auxVars, subproc>>

\* The helper of the case starts its subprocess: spawn('python3', [...]) or
\* spawn('gs', gsArgs); the promise settles on the child's 'close' or 'error'
\* event - 'error' when the program cannot be started.  The helpers of
\* pdfToWord, repairPdf and docxToPdf await fs.mkdir(outputDir) first; when
\* the program cannot be started the child's 'close' event follows its 'error'
\* event with a code other than 0, and the close handler removes the directory.
WorkerSpawn(w) ==
  /\ AtOp(w, "spawn")
  /\ subproc[w] = "none"
  /\ LET j == cur[w]
         a == jobArgs[j]
     IN /\ gsArgs' = IF a.tool = "compress"
                       THEN [gsArgs EXCEPT ![w] = GsProfile(a.level)] ELSE gsArgs
        /\ \E started \in BOOLEAN :
             IF started
               THEN /\ subproc' = [subproc EXCEPT ![w] = "running"]
                    /\ scratch' = IF a.tool \in {"pdfToWord", "repairPdf", "docxToPdf"}
                                    THEN scratch \cup {ScratchPath(j, a)} ELSE scratch
                    /\ UNCHANGED <<pc, err, thrown>>
               ELSE /\ Throw(w, "Failed to start Python script")
                    /\ UNCHANGED <<subproc, scratch>>
  /\ UNCHANGED <<dbVars, localFiles, cur, step, files, outName, inflight, execCount, claimers,
                 finished, issued, rawDelIssued>>
  /\ UNCHANGED <<dlVars, memVars, logVars, cacheVars, splitVars, incRet>>

\* The time the child has been running goes past the soft timeout of the tool.
\* The worker holds no timer on the child and no reference to kill it with: it
\* waits in the promise, and nothing changes but the child being overdue.
SoftTimeoutElapses(w) ==
  /\ subproc[w] = "running"
  /\ subproc' = [subproc EXCEPT ![w] = "overdue"]
  /\ UNCHANGED <<dbVars, localFiles, pc, cur, step, files, err, outName, inflight, histVars>>
  /\ UNCHANGED <<dlVars, memVars, auxVars>>

\* The scratch directory after the child has exited with a code other than 0,
\* or with 0 and an output that cannot be read: the helpers that return the
\* output's buffer remove the output (fs.rm of the file, or of the directory);
\* Ghostscript's and add_page_numbers.py's callers remove nothing.
ScratchAfterFailure(path, tool) ==
  IF tool \in {"pdfToWord", "repairPdf", "docxToPdf", "protectPdf", "unlockPdf", "addWatermark"}
    THEN scratch \ {path} ELSE scratch

\* on('close', code): exit code 0 resolves, with the output written to its
\* path, any other code rejects.  A child that never exits gives no such event.
SubprocessClose(w) ==
  /\ subproc[w] # "none"
  /\ subproc' = [subproc EXCEPT ![w] = "none"]
  /\ LET j == cur[w]
         a == jobArgs[j]
     IN \E ok \in BOOLEAN :
          IF ok THEN /\ Advance(w)
                     /\ scratch' = scratch \cup {ScratchPath(j, a)}
                     /\ UNCHANGED <<err, thrown>>
                ELSE /\ Throw(w, Op(w).msg)
                     /\ scratch' = ScratchAfterFailure(ScratchPath(j, a), a.tool)
                     /\ UNCHANGED step
  /\ UNCHANGED <<dbVars, localFiles, cur, files, outName, inflight, execCount, claimers,
                 finished, issued, rawDelIssued>>
  /\ UNCHANGED <<dlVars, memVars, logVars, cacheVars, splitVars, incRet, gsArgs>>

\* An update that was not awaited reaches the table.
DeliverUpdate ==
  \E m \in inflight :
    /\ rows' = DbUpdate(m.u, TRUE)
    /\ inflight' = inflight \ {m}
    /\ UNCHANGED <<processed, rawInputs, jobArgs, localFiles, pc, cur, step, files, err,
                   outName, histVars>>
    /\ UNCHANGED <<dlVars, memVars, auxVars, subproc>>

\* throw new Error(`Failed to upload processed file. Reason: ${uploadError.message}`)
UploadFailed(duplicate) ==
  IF duplicate THEN "Failed to upload processed file. Reason: The resource already exists"
               ELSE "Failed to upload processed file"

\* uploadProcessedFile, then the throw of line 766 when it returns an error.
\* The upload is refused when the path already holds an object (no upsert).
\* On success the function also writes file_size to the row.
WorkerUpload(w) ==
  /\ pc[w] = "upload"
  /\ LET j == cur[w] IN
       \E name \in OutputFileNames(j, jobArgs[j]), ok \in BOOLEAN :
          IF ok /\ ProcessedPath(j, name) \notin processed
            THEN /\ processed' = processed \cup {ProcessedPath(j, name)}
                 /\ rows' = IF rows[j].exists
                             THEN [rows EXCEPT ![j].file_size = TRUE] ELSE rows
                 /\ outName' = [outName EXCEPT ![w] = name]
                 /\ pc' = [pc EXCEPT ![w] = "succeed"]
                 /\ UNCHANGED <<err, thrown>>
            ELSE /\ Throw(w, UploadFailed(ok))
                 /\ UNCHANGED <<processed, rows, outName>>
  /\ UNCHANGED <<rawInputs, jobArgs, localFiles, cur, step, files, inflight, execCount,
                 claimers, finished, issued, rawDelIssued>>
  /\ UNCHANGED <<dlVars, memVars, auxVars, subproc>>

\* What the worker does when the update that marks the job succeeded returns
\* {success: false}: the result is not read, the worker goes to finally.
AfterSucceed_throws(w, ok) == IF ok THEN "finally" ELSE "catch"
AfterSucceed(w, ok) == "finally"

\* await updateProcessingJobStatus(jobId, 'succeeded', 100, finalOutputFileName, publicUrl)
WorkerMarkSucceeded(w) ==
  /\ pc[w] = "succeed"
  /\ LET j == cur[w]
         u == Update(j, "succeeded", 100, outName[w], PublicUrl(j, outName[w]), NoError)
     IN /\ \E ok \in BOOLEAN :
             /\ rows' = DbUpdate(u, ok)
             /\ pc' = [pc EXCEPT ![w] = AfterSucceed(w, ok)]
        /\ issued' = [issued EXCEPT ![j] = @ \cup {u}]
  /\ step' = [step EXCEPT ![w] = 1]
  /\ UNCHANGED <<processed, rawInputs, jobArgs, localFiles, cur, files, err, outName,
                 inflight, execCount, claimers, finished, thrown, rawDelIssued>>
  /\ UNCHANGED <<dlVars, memVars, auxVars, subproc>>

\* The update the catch block issues for the error it caught.
CatchUpdate_noMessage(j, msg) == Update(j, "failed", 0, NullName, NullUrl, NoError)
CatchUpdate_keepProgress(j, msg) == Update(j, "failed", NullProgress, NullName, NullUrl, msg)
CatchUpdate(j, msg) == Update(j, "failed", 0, NullName, NullUrl, msg)

\* Where the worker goes when the update of the catch block has returned:
\* updateProcessingJobStatus catches what its database call throws and returns
\* {success: false}, so the await in the catch block never throws and
\* executePdfProcessing does not reject ("exit" stands for the rejection,
\* which workerLoop().catch answers with process.exit(1)).
AfterCatch_rejects(w, ok) == IF ok THEN "finally" ELSE "exit"
AfterCatch(w, ok) == "finally"

\* catch: await updateProcessingJobStatus(jobId, 'failed', 0, null, null, error.message)
WorkerCatch(w) ==
  /\ pc[w] = "catch"
  /\ LET j == cur[w]
         u == CatchUpdate(j, err[w])
     IN /\ \E ok \in BOOLEAN :
             /\ rows' = DbUpdate(u, ok)
             /\ pc' = [pc EXCEPT ![w] = AfterCatch(w, ok)]
        /\ issued' = [issued EXCEPT ![j] = @ \cup {u}]
  /\ step' = [step EXCEPT ![w] = 1]
  /\ UNCHANGED <<processed, rawInputs, jobArgs, localFiles, cur, files, err, outName,
                 inflight, execCount, claimers, finished, thrown, rawDelIssued>>
  /\ UNCHANGED <<dlVars, memVars, auxVars, subproc>>

\* The files the finally block cleans up: those pushed to filesToProcess.
CleanupFiles(w) == 1..files[w]

\* finally, one iteration: fs.unlink(file.filepath), then
\* deleteFileFromStorage('raw-inputs', file.storagePath), whose error is logged.
WorkerFinally(w) ==
  /\ pc[w] = "finally"
  /\ step[w] \in CleanupFiles(w)
  /\ LET j == cur[w]
         i == step[w]
     IN /\ localFiles' = localFiles \ {<<w, j, i>>}
        /\ rawInputs' = rawInputs \ {<<j, i>>}
        /\ rawDelIssued' = rawDelIssued \cup {<<j, i>>}
  /\ step' = [step EXCEPT ![w] = @ + 1]
  /\ UNCHANGED <<rows, processed, jobArgs, pc, cur, files, err, outName, inflight,
                 execCount, claimers, finished, thrown, issued>>
  /\ UNCHANGED <<dlVars, memVars, auxVars, subproc>>

\* executePdfProcessing returns; workerLoop polls again.
WorkerReturn(w) ==
  /\ pc[w] = "finally"
  /\ step[w] \notin CleanupFiles(w)
  /\ finished' = finished \cup {cur[w]}
  /\ pc' = [pc EXCEPT ![w] = "poll"]
  /\ cur' = [cur EXCEPT ![w] = NoJob]
  /\ step' = [step EXCEPT ![w] = 0]
  /\ files' = [files EXCEPT ![w] = 0]
  /\ err' = [err EXCEPT ![w] = NoError]
  /\ outName' = [outName EXCEPT ![w] = NullName]
  /\ UNCHANGED <<dbVars, localFiles, inflight, execCount, claimers, thrown, issued,
                 rawDelIssued>>
  /\ UNCHANGED <<dlVars, memVars, auxVars, subproc>>

Next ==
  \/ \E w \in Workers :
       \/ WorkerPoll(w)
       \/ WorkerDownload(w)
       \/ WorkerUpd10(w)
       \/ WorkerCheck(w)
       \/ WorkerAwaitUpdate(w)
       \/ WorkerFireUpdate(w)
       \/ WorkerCall(w)
       \/ WorkerSpawn(w)
       \/ SoftTimeoutElapses(w)
       \/ SubprocessClose(w)
       \/ WorkerUpload(w)
       \/ WorkerMarkSucceeded(w)
       \/ WorkerCatch(w)
       \/ WorkerFinally(w)
       \/ WorkerReturn(w)
  \/ DeliverUpdate

Spec == Init /\ [][Next]_vars

\* The steps of workers that process merge jobs (the merge case issues no
\* update without await, so nothing is ever in flight).
NextClaim ==
  \E w \in Workers :
    \/ WorkerPoll(w)
    \/ WorkerDownload(w)
    \/ WorkerUpd10(w)
    \/ WorkerCheck(w)
    \/ WorkerAwaitUpdate(w)
    \/ WorkerCall(w)
    \/ WorkerUpload(w)
    \/ WorkerMarkSucceeded(w)
    \/ WorkerCatch(w)
    \/ WorkerFinally(w)
    \/ WorkerReturn(w)

SpecClaim == InitClaim /\ [][NextClaim]_vars

\* -------------------------------------------------- crash and second run
\* The worker process is killed while it processes a job and is started
\* again: what it held in memory is gone, the row, the stores, the files on
\* disk and the requests it had sent stay as they are.
WorkerCrash(w) ==
  /\ cur[w] # NoJob
  /\ pc' = [pc EXCEPT ![w] = "poll"]
  /\ cur' = [cur EXCEPT ![w] = NoJob]
  /\ step' = [step EXCEPT ![w] = 0]
  /\ files' = [files EXCEPT ![w] = 0]
  /\ err' = [err EXCEPT ![w] = NoError]
  /\ outName' = [outName EXCEPT ![w] = NullName]
  /\ subproc' = [subproc EXCEPT ![w] = "none"]
  /\ UNCHANGED <<dbVars, localFiles, inflight, histVars>>
  /\ UNCHANGED <<dlVars, memVars, auxVars>>

\* The job of a crashed worker is made pending again, to be processed a
\* second time (at-least-once processing); at most MaxRuns runs per job.
Requeue(j) ==
  /\ rows[j].exists
  /\ rows[j].status = "in_progress"
  /\ \A w \in Workers : cur[w] # j
  /\ execCount[j] < MaxRuns
  /\ rows' = [rows EXCEPT ![j].status = "pending"]
  /\ UNCHANGED <<processed, rawInputs, jobArgs, workerVars, histVars>>
  /\ UNCHANGED <<dlVars, memVars, auxVars>>

NextRetry ==
  \/ \E w \in Workers : WorkerPoll(w)
  \/ \E w \in Workers : WorkerDownload(w)
  \/ \E w \in Workers : WorkerUpd10(w)
  \/ \E w \in Workers : WorkerCheck(w)
  \/ \E w \in Workers : WorkerAwaitUpdate(w)
  \/ \E w \in Workers : WorkerFireUpdate(w)
  \/ \E w \in Workers : WorkerCall(w)
  \/ \E w \in Workers : WorkerSpawn(w)
  \/ \E w \in Workers : SoftTimeoutElapses(w)
  \/ \E w \in Workers : SubprocessClose(w)
  \/ \E w \in Workers : WorkerUpload(w)
  \/ \E w \in Workers : WorkerMarkSucceeded(w)
  \/ \E w \in Workers : WorkerCatch(w)
  \/ \E w \in Workers : WorkerFinally(w)
  \/ \E w \in Workers : WorkerReturn(w)
  \/ \E w \in Workers : WorkerCrash(w)
  \/ \E j \in JobIds : Requeue(j)
  \/ DeliverUpdate

SpecRetry == Init /\ [][NextRetry]_vars

\* ------------------------------------------------- proxied download, delete
\* The state a finished merge job leaves behind: the row the worker marked
\* succeeded, its artifact in processed-pdfs, the raw inputs deleted.
MergeArgs == CHOOSE a \in JobArgSet : a.tool = "merge" /\ a.nIn = MergeMinFiles

SucceededRow(j, w) ==
  [exists |-> TRUE, status |-> "succeeded", progress |-> 100, worker_id |-> w,
   file_name |-> FinalOutputFileName(j, MergeArgs),
   public_url |-> PublicUrl(j, FinalOutputFileName(j, MergeArgs)),
   error_message |-> NoError, access_count |-> 0, file_size |-> TRUE]

\* Job FirstJob, a merge of two files, was processed by worker 1 without an
\* error and the worker is polling again.
AfterMergeSucceeded ==
  /\ jobArgs = [j \in JobIds |-> IF j = FirstJob THEN MergeArgs ELSE DefaultArgs]
  /\ rows = [j \in JobIds |-> IF j = FirstJob THEN SucceededRow(j, 1) ELSE AbsentRow]
  /\ processed = {ProcessedPath(FirstJob, FinalOutputFileName(FirstJob, MergeArgs))}
  /\ rawInputs = {}
  /\ localFiles = {}
  /\ pc = [w \in Workers |-> "poll"]
  /\ cur = [w \in Workers |-> NoJob]
  /\ step = [w \in Workers |-> 0]
  /\ files = [w \in Workers |-> 0]
  /\ err = [w \in Workers |-> NoError]
  /\ outName = [w \in Workers |-> NullName]
  /\ inflight = {}
  /\ subproc = [w \in Workers |-> "none"]
  /\ scratch = {}
  /\ gsArgs = [w \in Workers |-> NoProfile]
  /\ execCount = [j \in JobIds |-> IF j = FirstJob THEN 1 ELSE 0]
  /\ claimers = [j \in JobIds |-> IF j = FirstJob THEN {1} ELSE {}]
  /\ finished = {FirstJob}
  /\ thrown = [j \in JobIds |-> NoError]
  /\ issued = [j \in JobIds |->
                 IF j = FirstJob
                   THEN {Update(j, "succeeded", 100, FinalOutputFileName(j, MergeArgs),
                                PublicUrl(j, FinalOutputFileName(j, MergeArgs)), NoError)}
                   ELSE {}]
  /\ rawDelIssued = {<<FirstJob, i>> : i \in 1..MergeMinFiles}

\* The same with every other job id submitted as a merge of two files and
\* still pending: no worker has polled since.
AfterMergeOthersPending ==
  /\ jobArgs = [j \in JobIds |-> MergeArgs]
  /\ rows = [j \in JobIds |-> IF j = FirstJob THEN SucceededRow(j, 1) ELSE PendingRow]
  /\ processed = {ProcessedPath(FirstJob, FinalOutputFileName(FirstJob, MergeArgs))}
  /\ rawInputs = (JobIds \ {FirstJob}) \X (1..MergeMinFiles)
  /\ localFiles = {}
  /\ pc = [w \in Workers |-> "poll"]
  /\ cur = [w \in Workers |-> NoJob]
  /\ step = [w \in Workers |-> 0]
  /\ files = [w \in Workers |-> 0]
  /\ err = [w \in Workers |-> NoError]
  /\ outName = [w \in Workers |-> NullName]
  /\ inflight = {}
  /\ subproc = [w \in Workers |-> "none"]
  /\ scratch = {}
  /\ gsArgs = [w \in Workers |-> NoProfile]
  /\ execCount = [j \in JobIds |-> IF j = FirstJob THEN 1 ELSE 0]
  /\ claimers = [j \in JobIds |-> IF j = FirstJob THEN {1} ELSE {}]
  /\ finished = {FirstJob}
  /\ thrown = [j \in JobIds |-> NoError]
  /\ issued = [j \in JobIds |->
                 IF j = FirstJob
                   THEN {Update(j, "succeeded", 100, FinalOutputFileName(j, MergeArgs),
                                PublicUrl(j, FinalOutputFileName(j, MergeArgs)), NoError)}
                   ELSE {}]
  /\ rawDelIssued = {<<FirstJob, i>> : i \in 1..MergeMinFiles}

\* The download, delete and PATCH requests start from one of these states.
InitDL == (AfterMergeSucceeded \/ AfterMergeOthersPending) /\ InitRequests /\ InitMem /\ InitAux

\* The requests being handled for job j.
OpenOn(j) == {q \in BagToSet(reqs) : q.job = j}

\* At most NumReq requests are received in all.
Arrives == nStarted < NumReq

Request(pc0, j, ac, url) == [pc |-> pc0, job |-> j, ac |-> ac, url |-> url]
Moved(q, q2) == (reqs (-) SetToBag({q})) (+) SetToBag({q2})
Answered(q) == reqs (-) SetToBag({q})

\* The object a public URL names: the edge function takes bucket and path from
\* the URL with /public\/([^/]+)\/(.+)$/, which for
\* .../object/public/processed-pdfs/public/{jobId}/{file_name} gives the bucket
\* processed-pdfs and the path public/{jobId}/{file_name}.
UrlPath(url) == ProcessedPath(url.job, url.name)

\* if (error || !job || !job.public_url) return 404
HasPublicUrl_rowOnly(row) == row.exists
HasPublicUrl(row) == row.exists /\ row.public_url # NullUrl

\* GET /download-proxied-file?jobId=j, up to the call of the edge function:
\* getJobStatus; 404 when the job is absent or has no public_url.
DlGetJob(j) ==
  /\ Arrives
  /\ nStarted' = nStarted + 1
  /\ nGet' = [nGet EXCEPT ![j] = @ + 1]
  /\ IF HasPublicUrl(rows[j])
       THEN /\ reqs' = reqs (+) SetToBag({Request("edgeRead", j, 0, rows[j].public_url)})
            /\ overlapped' = IF OpenOn(j) # {} THEN overlapped \cup {j} ELSE overlapped
            /\ UNCHANGED <<nDone, n404>>
       ELSE /\ nDone' = [nDone EXCEPT ![j] = @ + 1]
            /\ n404' = [n404 EXCEPT ![j] = @ + 1]
            /\ UNCHANGED <<reqs, overlapped>>
  /\ UNCHANGED <<dbVars, workerVars, histVars, memVars, auxVars, edgeOk, n200, n410, faulted, storageErr,
                 edgeCalls, delHist>>

\* Edge function, step 1: select access_count, file_name, public_url of the job.
\* Without a row it answers 404, and the route answers 500.
EdgeRead(q) ==
  /\ q.pc = "edgeRead"
  /\ LET j == q.job IN
       /\ edgeCalls' = [edgeCalls EXCEPT ![j] = @ + 1]
       /\ IF rows[j].exists
            THEN /\ reqs' = Moved(q, Request("edgeDecide", j, rows[j].access_count,
                                             rows[j].public_url))
                 /\ UNCHANGED nDone
            ELSE /\ reqs' = Answered(q)
                 /\ nDone' = [nDone EXCEPT ![j] = @ + 1]
  /\ UNCHANGED <<dbVars, workerVars, histVars, memVars, auxVars, nStarted, edgeOk, n200, n410, faulted,
                 overlapped, storageErr, nGet, n404, delHist>>

\* if (newAccessCount <= 3)
WithinLimit_two(newAccessCount) == newAccessCount < MaxAccess
WithinLimit(newAccessCount) == newAccessCount <= MaxAccess

\* Edge function, step 2: write access_count = newAccessCount and answer
\* {success: true, access_count}; the update's error is logged, not acted on.
EdgeIncrement(q) ==
  /\ q.pc = "edgeDecide"
  /\ WithinLimit(q.ac + 1)
  /\ LET j == q.job IN
       /\ \E ok \in BOOLEAN :
            /\ rows' = IF ok /\ rows[j].exists
                         THEN [rows EXCEPT ![j].access_count = q.ac + 1] ELSE rows
            /\ faulted' = IF ok THEN faulted ELSE faulted \cup {j}
       /\ edgeOk' = [edgeOk EXCEPT ![j] = @ + 1]
  /\ reqs' = Moved(q, [q EXCEPT !.pc = "fetch"])
  /\ UNCHANGED <<processed, rawInputs, jobArgs, workerVars, histVars, memVars, auxVars, ghostVars, nStarted, n200,
                 n410, nDone, overlapped, storageErr>>

\* The storage after the edge function's remove([filePath]) of the artifact.
EdgeStorageAfter_skipped(q, ok) == processed
EdgeStorageAfter(q, ok) == IF ok THEN processed \ {UrlPath(q.url)} ELSE processed

\* Edge function, step 3: supabase.storage.from(bucket).remove([filePath]); the
\* error is logged and the function goes on.
EdgeRemoveStorage(q) ==
  /\ q.pc = "edgeDecide"
  /\ ~WithinLimit(q.ac + 1)
  /\ LET j == q.job IN
       \E ok \in BOOLEAN :
         /\ processed' = EdgeStorageAfter(q, ok)
         /\ storageErr' = IF ok THEN storageErr ELSE storageErr \cup {j}
         /\ faulted' = IF ok THEN faulted ELSE faulted \cup {j}
  /\ reqs' = Moved(q, [q EXCEPT !.pc = "edgeDelete"])
  /\ UNCHANGED <<rows, rawInputs, jobArgs, workerVars, histVars, memVars, auxVars, ghostVars, nStarted, edgeOk, n200,
                 n410, nDone, overlapped>>

\* Edge function, step 4: insert into deleted_jobs_log, delete the row (errors
\* logged), answer {success: true, deleted: true}; the route answers 410.
EdgeDeleteRow(q) ==
  /\ q.pc = "edgeDelete"
  /\ LET j == q.job IN
       /\ \E ok \in BOOLEAN :
            /\ rows' = IF ok THEN [rows EXCEPT ![j] = AbsentRow] ELSE rows
            /\ faulted' = IF ok THEN faulted ELSE faulted \cup {j}
       /\ n410' = [n410 EXCEPT ![j] = @ + 1]
       /\ nDone' = [nDone EXCEPT ![j] = @ + 1]
  /\ reqs' = Answered(q)
  /\ UNCHANGED <<processed, rawInputs, jobArgs, workerVars, histVars, memVars, auxVars, ghostVars, nStarted, edgeOk,
                 n200, overlapped, storageErr>>

\* fetch(job.public_url): 200 with the body when the object is there and the
\* fetch goes through, otherwise the failure status of the fetch.
DlFetch(q) ==
  /\ q.pc = "fetch"
  /\ LET j == q.job IN
       /\ \E ok \in BOOLEAN :
            IF ok /\ UrlPath(q.url) \in processed
              THEN /\ n200' = [n200 EXCEPT ![j] = @ + 1]
                   /\ UNCHANGED faulted
              ELSE /\ faulted' = faulted \cup {j}
                   /\ UNCHANGED n200
       /\ nDone' = [nDone EXCEPT ![j] = @ + 1]
  /\ reqs' = Answered(q)
  /\ UNCHANGED <<dbVars, workerVars, histVars, memVars, auxVars, ghostVars, nStarted, edgeOk, n410, overlapped,
                 storageErr>>

\* DELETE /delete-processed-file?jobId=j, deleteProcessingJobAndFile step 1:
\* select public_url, file_name with .single(); without a row fetchError is
\* set, the function returns {success: false} and the route answers 500.
\* delHist[j] goes from "deleted" (a DELETE of j answered 200) to "refused"
\* when a later DELETE finds neither row nor artifact and answers 500.
DelFetchJob(j) ==
  /\ Arrives
  /\ nStarted' = nStarted + 1
  /\ IF rows[j].exists
       THEN /\ reqs' = reqs (+) SetToBag({Request(
                 IF rows[j].public_url # NullUrl /\ rows[j].file_name # NullName
                   THEN "delStorage" ELSE "delRow",
                 j, 0, PublicUrl(j, rows[j].file_name))})
            /\ overlapped' = overlapped \cup {j}
            /\ UNCHANGED delHist
       ELSE /\ delHist' = IF delHist[j] = "deleted" /\ \A p \in processed : p.job # j
                             THEN [delHist EXCEPT ![j] = "refused"] ELSE delHist
            /\ UNCHANGED <<reqs, overlapped>>
  /\ UNCHANGED <<dbVars, workerVars, histVars, memVars, auxVars, nGet, n404, edgeCalls, edgeOk, n200, n410,
                 nDone, faulted, storageErr>>

\* deleteProcessingJobAndFile step 2: remove public/{jobId}/{file_name} from
\* processed-pdfs; "Continue deleting DB record even if file deletion fails".
DelStorage(q) ==
  /\ q.pc = "delStorage"
  /\ LET j == q.job IN
       \E ok \in BOOLEAN :
         /\ processed' = IF ok THEN processed \ {UrlPath(q.url)} ELSE processed
         /\ storageErr' = IF ok THEN storageErr ELSE storageErr \cup {j}
         /\ faulted' = IF ok THEN faulted ELSE faulted \cup {j}
  /\ reqs' = Moved(q, [q EXCEPT !.pc = "delRow"])
  /\ UNCHANGED <<rows, rawInputs, jobArgs, workerVars, histVars, memVars, auxVars, ghostVars, nStarted, edgeOk, n200,
                 n410, nDone, overlapped>>

\* deleteProcessingJobAndFile step 3: delete the row; 200 when the database
\* reports no error, 500 when it does (the call is .delete().in('id', jobId)
\* with jobId a string, so both outcomes are kept).
DelRow(q) ==
  /\ q.pc = "delRow"
  /\ LET j == q.job IN
       \E ok \in BOOLEAN :
         /\ rows' = IF ok THEN [rows EXCEPT ![j] = AbsentRow] ELSE rows
         /\ faulted' = IF ok THEN faulted ELSE faulted \cup {j}
         /\ delHist' = IF ok /\ delHist[j] = "none"
                          THEN [delHist EXCEPT ![j] = "deleted"] ELSE delHist
  /\ reqs' = Answered(q)
  /\ UNCHANGED <<processed, rawInputs, jobArgs, workerVars, histVars, memVars, auxVars, nGet, n404, edgeCalls,
                 nStarted, edgeOk, n200, n410, nDone, overlapped, storageErr>>

\* PATCH /list-processed-files {fileId: j}, step 1: select access_count;
\* 404 without a row.
PatchRead(j) ==
  /\ Arrives
  /\ nStarted' = nStarted + 1
  /\ IF rows[j].exists
       THEN /\ reqs' = reqs (+) SetToBag({Request("patchWrite", j, rows[j].access_count,
                                                  NullUrl)})
            /\ overlapped' = overlapped \cup {j}
       ELSE UNCHANGED <<reqs, overlapped>>
  /\ UNCHANGED <<dbVars, workerVars, histVars, memVars, auxVars, ghostVars, edgeOk, n200, n410, nDone,
                 faulted, storageErr>>

\* PATCH, step 2: update access_count = (current.access_count || 0) + 1 and
\* updated_at; 500 on a database error, 404 when no row was updated, else 200.
PatchWrite(q) ==
  /\ q.pc = "patchWrite"
  /\ LET j == q.job IN
       \E ok \in BOOLEAN :
         /\ rows' = IF ok /\ rows[j].exists
                      THEN [rows EXCEPT ![j].access_count = q.ac + 1] ELSE rows
         /\ faulted' = IF ok THEN faulted ELSE faulted \cup {j}
  /\ reqs' = Answered(q)
  /\ UNCHANGED <<processed, rawInputs, jobArgs, workerVars, histVars, memVars, auxVars, ghostVars, nStarted,
                 edgeOk, n200, n410, nDone, overlapped, storageErr>>

\* Clients hold the ids of the jobs that were submitted.
\* (a row, or a job a worker has processed).
Submitted == {j \in JobIds : rows[j].exists \/ execCount[j] > 0}

NextDL ==
  \/ \E j \in Submitted : DlGetJob(j)
  \/ \E j \in Submitted : DelFetchJob(j)
  \/ \E q \in BagToSet(reqs) : EdgeRead(q)
  \/ \E q \in BagToSet(reqs) : EdgeIncrement(q)
  \/ \E q \in BagToSet(reqs) : EdgeRemoveStorage(q)
  \/ \E q \in BagToSet(reqs) : EdgeDeleteRow(q)
  \/ \E q \in BagToSet(reqs) : DlFetch(q)
  \/ \E q \in BagToSet(reqs) : DelStorage(q)
  \/ \E q \in BagToSet(reqs) : DelRow(q)
  \/ \E j \in Submitted : PatchRead(j)
  \/ \E q \in BagToSet(reqs) : PatchWrite(q)

SpecDL == InitDL /\ [][NextDL]_vars

\* ------------------------------------- lib/fileCache and POST /process-pdf
\* The part of the system that keeps its jobs in the web process: the Map
\* processingJobs, the cache of output files and the cleanup timer.
supaVars == <<dbVars, workerVars, histVars, dlVars, auxVars>>

\* if (jobData.status !== 'active' && (now - jobData.timestamp) > JOB_ACCESS_PERIOD)
JobExpired_anyStatus(jobData, t) == (t - jobData.timestamp) > JOB_ACCESS_PERIOD
JobExpired(jobData, t) ==
  jobData.status # "active" /\ (t - jobData.timestamp) > JOB_ACCESS_PERIOD

\* if (fileData && fileData.deleteAt && now > fileData.deleteAt)
FileExpired(fileData, t) == t > fileData.deleteAt

\* cleanupExpiredFiles at time t: the two maps after its two loops.
CleanedFiles(t) ==
  [id \in PostIds |->
     IF processedFilesCache[id].exists /\ FileExpired(processedFilesCache[id], t)
       THEN NoFileData ELSE processedFilesCache[id]]
CleanedJobs(t) ==
  [id \in PostIds |->
     IF processingJobs[id].exists /\ JobExpired(processingJobs[id], t)
       THEN NoJobData ELSE processingJobs[id]]

\* if (!globalThis[CLEANUP_INTERVAL_ID_KEY])
AlreadyStarted_never(intervalId) == FALSE
AlreadyStarted(intervalId) == intervalId

\* startCleanupService, called when a route module is loaded: the first call
\* sets the interval timer and runs cleanupExpiredFiles once.
StartCleanupService ==
  /\ startCalls < MaxStarts
  /\ startCalls' = startCalls + 1
  /\ IF AlreadyStarted(cleanupIntervalId)
       THEN UNCHANGED <<cleanupIntervalId, timers, nextTick, processingJobs,
                        processedFilesCache>>
       ELSE /\ cleanupIntervalId' = TRUE
            /\ timers' = timers + 1
            /\ nextTick' = now + CLEANUP_INTERVAL
            /\ processingJobs' = CleanedJobs(now)
            /\ processedFilesCache' = CleanedFiles(now)
  /\ UNCHANGED <<now, posts, apc, saved, supaVars>>

\* The interval timer fires: cleanupExpiredFiles.
CleanupTick ==
  /\ timers > 0
  /\ nextTick = now
  /\ nextTick' = now + CLEANUP_INTERVAL
  /\ processingJobs' = CleanedJobs(now)
  /\ processedFilesCache' = CleanedFiles(now)
  /\ UNCHANGED <<now, cleanupIntervalId, timers, startCalls, posts, apc, saved,
                 supaVars>>

\* A minute passes; a timer that is due fires before the clock moves on.
Minute ==
  /\ now < MaxTime
  /\ ~(timers > 0 /\ nextTick = now)
  /\ now' = now + 1
  /\ UNCHANGED <<processingJobs, processedFilesCache, cleanupIntervalId, timers, nextTick,
                 startCalls, posts, apc, saved, supaVars>>

\* lib/fileCache updateProcessingJobStatus: nothing without an entry; status,
\* progress when not null, timestamp = Date.now().
memUpdateProcessingJobStatus(jobs, id, status, progress) ==
  IF ~jobs[id].exists THEN jobs
  ELSE [jobs EXCEPT ![id].status = status,
                    ![id].progress = IF progress # NullProgress THEN progress ELSE @,
                    ![id].timestamp = now]

\* The id of the next POST (jobId = uuidv4(), never used before).
NextPost == Cardinality({id \in PostIds : posts[id].received}) + 1

\* if (!toolId) return 400
Rejected(toolId, nFiles) == ~toolId

\* POST /process-pdf with or without toolId and with nFiles files, up to the
\* response: 400, or addProcessingJob (status active, progress 0) and 202 with
\* the asynchronous part started.  The route module is loaded (and with it
\* startCleanupService has run) before its handler is called.
PostProcessPdf(toolId, nFiles) ==
  /\ cleanupIntervalId
  /\ NextPost \in PostIds
  /\ LET id == NextPost IN
       IF Rejected(toolId, nFiles)
         THEN /\ posts' = [posts EXCEPT ![id] =
                   [received |-> TRUE, toolId |-> toolId, nFiles |-> nFiles, code |-> 400,
                    added |-> FALSE]]
              /\ UNCHANGED <<processingJobs, apc>>
         ELSE /\ posts' = [posts EXCEPT ![id] =
                   [received |-> TRUE, toolId |-> toolId, nFiles |-> nFiles, code |-> 202,
                    added |-> TRUE]]
              /\ processingJobs' = [processingJobs EXCEPT ![id] =
                   [exists |-> TRUE, status |-> "active", progress |-> 0, timestamp |-> now]]
              /\ apc' = [apc EXCEPT ![id] = "save"]
  /\ UNCHANGED <<now, processedFilesCache, cleanupIntervalId, timers, nextTick, startCalls,
                 saved, supaVars>>

\* Step 1 of the asynchronous part, one file: saveFileLocally, push, progress
\* Math.floor((index + 1) / files.length * 10); a failing write throws.
AsyncSaveFile(id) ==
  /\ apc[id] = "save"
  /\ saved[id] < posts[id].nFiles
  /\ \E ok \in BOOLEAN :
       IF ok
         THEN /\ saved' = [saved EXCEPT ![id] = @ + 1]
              /\ processingJobs' = memUpdateProcessingJobStatus(processingJobs, id, "active",
                                     ((saved[id] + 1) * 10) \div posts[id].nFiles)
              /\ UNCHANGED apc
         ELSE /\ processingJobs' = memUpdateProcessingJobStatus(processingJobs, id, "failed", 0)
              /\ apc' = [apc EXCEPT ![id] = "finally"]
              /\ UNCHANGED saved
  /\ UNCHANGED <<now, processedFilesCache, cleanupIntervalId, timers, nextTick, startCalls,
                 posts, supaVars>>

\* updateProcessingJobStatus(jobId, 'active', 10) after the last file.
AsyncSaved(id) ==
  /\ apc[id] = "save"
  /\ saved[id] = posts[id].nFiles
  /\ processingJobs' = memUpdateProcessingJobStatus(processingJobs, id, "active", 10)
  /\ apc' = [apc EXCEPT ![id] = "tool"]
  /\ UNCHANGED <<now, processedFilesCache, cleanupIntervalId, timers, nextTick, startCalls,
                 posts, saved, supaVars>>

\* The case of the tool: every case checks filesToProcess.length (exactly one,
\* exactly two, or at least two files) and throws otherwise, so no case passes
\* without a file; with files the handler returns or throws.  On return the
\* output is written, put in the cache with deleteAt, and the job is marked
\* succeeded with progress 100; the catch marks it failed with progress 0.
AsyncTool(id) ==
  /\ apc[id] = "tool"
  /\ \E ok \in BOOLEAN :
       IF ok /\ posts[id].nFiles > 0
         THEN /\ processedFilesCache' = [processedFilesCache EXCEPT ![id] =
                   [exists |-> TRUE, deleteAt |-> now + FILE_ACCESS_PERIOD]]
              /\ processingJobs' = memUpdateProcessingJobStatus(processingJobs, id,
                                                               "succeeded", 100)
         ELSE /\ processingJobs' = memUpdateProcessingJobStatus(processingJobs, id, "failed", 0)
              /\ UNCHANGED processedFilesCache
  /\ apc' = [apc EXCEPT ![id] = "finally"]
  /\ UNCHANGED <<now, cleanupIntervalId, timers, nextTick, startCalls, posts, saved,
                 supaVars>>

\* finally: the saved input files are unlinked.
AsyncFinally(id) ==
  /\ apc[id] = "finally"
  /\ saved' = [saved EXCEPT ![id] = 0]
  /\ apc' = [apc EXCEPT ![id] = "done"]
  /\ UNCHANGED <<now, processingJobs, processedFilesCache, cleanupIntervalId, timers,
                 nextTick, startCalls, posts, supaVars>>

\* GET /process-pdf?jobId=id: 404 without an entry in processingJobs, else 200.
StatusCode(id) == IF processingJobs[id].exists THEN 200 ELSE 404

\* No Supabase job has been submitted to this deployment.
InitWeb ==
  /\ InitWith({}, {DefaultArgs})
  /\ InitRequests
  /\ InitMem
  /\ InitAux

\* The requests and the asynchronous parts they start, with no time passing.
NextWeb ==
  \/ StartCleanupService
  \/ \E toolId \in BOOLEAN, nFiles \in 0..MaxInputs : PostProcessPdf(toolId, nFiles)
  \/ \E id \in PostIds : AsyncSaveFile(id)
  \/ \E id \in PostIds : AsyncSaved(id)
  \/ \E id \in PostIds : AsyncTool(id)
  \/ \E id \in PostIds : AsyncFinally(id)

SpecWeb == InitWeb /\ [][NextWeb]_vars

\* Time passes and the cleanup timer fires; one request arrives at any time
\* and is processed at any pace.
FirstPost == CHOOSE id \in PostIds : \A k \in PostIds : id <= k

NextSweep ==
  \/ StartCleanupService
  \/ CleanupTick
  \/ Minute
  \/ \E toolId \in BOOLEAN, nFiles \in 0..MaxInputs :
       NextPost = FirstPost /\ PostProcessPdf(toolId, nFiles)
  \/ \E id \in PostIds : AsyncSaveFile(id)
  \/ \E id \in PostIds : AsyncSaved(id)
  \/ \E id \in PostIds : AsyncTool(id)
  \/ \E id \in PostIds : AsyncFinally(id)

SpecSweep == InitWeb /\ [][NextSweep]_vars

\* ------------------------------------- orphan artifact and cleanup service
\* One merge job of two files, workers that can be killed, and the web
\* process with the cleanup service of lib/fileCache, started at time 0.
\* Processing takes less than a minute; the clock runs once no worker holds
\* the job.
InitOrphan ==
  /\ InitWith({FirstJob}, {MergeArgs})
  /\ InitRequests
  /\ InitMem
  /\ InitAux

\* An output artifact that no row refers to and no worker is about to record.
Orphan(j) ==
  /\ \E p \in processed : p.job = j
  /\ rows[j].exists
  /\ rows[j].public_url = NullUrl
  /\ \A w \in Workers : cur[w] # j

NextOrphan ==
  \/ \E w \in Workers : WorkerPoll(w)
  \/ \E w \in Workers : WorkerDownload(w)
  \/ \E w \in Workers : WorkerUpd10(w)
  \/ \E w \in Workers : WorkerCheck(w)
  \/ \E w \in Workers : WorkerAwaitUpdate(w)
  \/ \E w \in Workers : WorkerCall(w)
  \/ \E w \in Workers : WorkerUpload(w)
  \/ \E w \in Workers : WorkerMarkSucceeded(w)
  \/ \E w \in Workers : WorkerCatch(w)
  \/ \E w \in Workers : WorkerFinally(w)
  \/ \E w \in Workers : WorkerReturn(w)
  \/ \E w \in Workers : WorkerCrash(w)
  \/ (now = 0 /\ StartCleanupService)
  \/ CleanupTick
  \/ ((\A w \in Workers : cur[w] = NoJob) /\ Minute)

SpecOrphan == InitOrphan /\ [][NextOrphan]_vars

\* ------------------------------------ GET /download-processed-file?id=...
\* The download of the output files kept by the web process: their entries
\* in processedFilesCache and their files in the temporary directory.  A
\* handler runs without interruption from one await to the next.
InitCache ==
  /\ InitWith({}, {DefaultArgs})
  /\ InitRequests
  /\ InitMem
  /\ LogIdle
  /\ SplitIdle
  /\ fileEntry = [f \in PostIds |-> [inCache |-> TRUE, accessCount |-> 0]]
  /\ onDisk = [f \in PostIds |-> TRUE]
  /\ gets = EmptyBag
  /\ nGets = 0
  /\ served = [f \in PostIds |-> 0]

CacheFrame ==
  UNCHANGED <<dbVars, workerVars, histVars, dlVars, memVars, logVars, splitVars, scratch, incRet,
              gsArgs>>
Get(f, pc0) == [id |-> f, pc |-> pc0]
GetMoved(q, pc0) == (gets (-) SetToBag({q})) (+) SetToBag({Get(q.id, pc0)})
GetAnswered(q) == gets (-) SetToBag({q})

\* The request arrives: processedFilesCache.get(fileId); 404 without an
\* entry, otherwise the handler holds the entry and awaits fs.readFile.
CacheLookup(f) ==
  /\ nGets < NumReq
  /\ nGets' = nGets + 1
  /\ gets' = IF fileEntry[f].inCache THEN gets (+) SetToBag({Get(f, "read")}) ELSE gets
  /\ UNCHANGED <<fileEntry, onDisk, served>>
  /\ CacheFrame

\* fileEntry.accessCount >= ACCESS_THRESHOLD
ThresholdReached(accessCount) == accessCount >= ACCESS_THRESHOLD

\* fs.readFile returns or throws (500).  With the buffer the handler counts
\* the access on the entry it holds; below the threshold it answers 200, at
\* the threshold it awaits fs.unlink first.
CacheRead(q) ==
  /\ q.pc = "read"
  /\ IF onDisk[q.id]
       THEN /\ fileEntry' = [fileEntry EXCEPT ![q.id].accessCount = @ + 1]
            /\ IF ThresholdReached(fileEntry[q.id].accessCount + 1)
                 THEN gets' = GetMoved(q, "unlink") /\ UNCHANGED served
                 ELSE gets' = GetAnswered(q) /\ served' = [served EXCEPT ![q.id] = @ + 1]
       ELSE /\ gets' = GetAnswered(q)
            /\ UNCHANGED <<fileEntry, served>>
  /\ UNCHANGED <<onDisk, nGets>>
  /\ CacheFrame

\* fs.unlink(fileEntry.filePath) takes the file off the disk, or fails when
\* there is no file.
CacheUnlink(q) ==
  /\ q.pc = "unlink"
  /\ onDisk' = [onDisk EXCEPT ![q.id] = FALSE]
  /\ gets' = GetMoved(q, IF onDisk[q.id] THEN "unlinked" ELSE "unlinkFailed")
  /\ UNCHANGED <<fileEntry, nGets, served>>
  /\ CacheFrame

\* After the unlink: processedFilesCache.delete(fileId), then the response
\* 200 with the buffer read before.
CacheDelete(q) ==
  /\ q.pc = "unlinked"
  /\ fileEntry' = [fileEntry EXCEPT ![q.id].inCache = FALSE]
  /\ gets' = GetAnswered(q)
  /\ served' = [served EXCEPT ![q.id] = @ + 1]
  /\ UNCHANGED <<onDisk, nGets>>
  /\ CacheFrame

\* catch (cleanupError): the error is logged, the entry stays where it is,
\* and the response is 200 with the buffer all the same.
CacheCleanupError(q) ==
  /\ q.pc = "unlinkFailed"
  /\ gets' = GetAnswered(q)
  /\ served' = [served EXCEPT ![q.id] = @ + 1]
  /\ UNCHANGED <<fileEntry, onDisk, nGets>>
  /\ CacheFrame

\* cleanupExpiredFiles finds the entry expired (now > deleteAt): it unlinks
\* the file and deletes the entry.
CacheExpire(f) ==
  /\ fileEntry[f].inCache
  /\ fileEntry' = [fileEntry EXCEPT ![f].inCache = FALSE]
  /\ onDisk' = [onDisk EXCEPT ![f] = FALSE]
  /\ UNCHANGED <<gets, nGets, served>>
  /\ CacheFrame

NextCache ==
  \/ \E f \in PostIds : CacheLookup(f)
  \/ \E f \in PostIds : CacheExpire(f)
  \/ \E q \in BagToSet(gets) : CacheRead(q)
  \/ \E q \in BagToSet(gets) : CacheUnlink(q)
  \/ \E q \in BagToSet(gets) : CacheDelete(q)
  \/ \E q \in BagToSet(gets) : CacheCleanupError(q)

SpecCache == InitCache /\ [][NextCache]_vars

\* ------------------------------------------- split: ranges and ZIP entries
\* The items of pageRange after split(',') and trim: a page number, a range
\* "a-b", or text that Number() turns into NaN.  Page 0 stands for the
\* numbers below 1.
PageItems ==
  [kind : {"page"}, a : 0..MaxPage, b : {0}]
    \cup [kind : {"range"}, a : 0..MaxPage, b : 0..MaxPage]
    \cup [kind : {"text"}, a : {0}, b : {0}]
PageRanges == UNION {[1..n -> PageItems] : n \in 1..MaxParts}

\* The checks of the loop over individualRanges: isNaN, start < 1, end < start.
ValidItem(it) ==
  CASE it.kind = "page" -> it.a >= 1
    [] it.kind = "range" -> it.a >= 1 /\ it.b >= it.a
    [] OTHER -> FALSE

\* rangesToSplit.push({ start: start - 1, end: end - 1 }), and
\* { start: pageNum - 1, end: pageNum - 1 } for a single page.
ZeroIndexed(it) ==
  IF it.kind = "page" THEN [start |-> it.a - 1, end |-> it.a - 1]
                      ELSE [start |-> it.a - 1, end |-> it.b - 1]

\* archive.append(buffer, { name: `split_page_${rangesToSplit[index].start + 1}.pdf` })
EntryName(range) == [prefix |-> "split_page_", first |-> range.start + 1, last |-> range.start + 1]

InitSplit ==
  /\ InitWith({}, {DefaultArgs})
  /\ InitRequests
  /\ InitMem
  /\ LogIdle
  /\ CacheIdle
  /\ pageRange \in PageRanges
  /\ rangesToSplit = << >>
  /\ entries = << >>
  /\ spc = "parse"

SplitFrame ==
  UNCHANGED <<pageRange, dbVars, workerVars, histVars, dlVars, memVars, logVars, cacheVars,
              scratch, incRet, gsArgs>>

\* The loop over the items: the first invalid item throws, otherwise every
\* item is pushed to rangesToSplit.
SplitParse ==
  /\ spc = "parse"
  /\ IF \A i \in 1..Len(pageRange) : ValidItem(pageRange[i])
       THEN /\ rangesToSplit' = [i \in 1..Len(pageRange) |-> ZeroIndexed(pageRange[i])]
            /\ spc' = "split"
       ELSE /\ spc' = "thrown"
            /\ UNCHANGED rangesToSplit
  /\ UNCHANGED entries
  /\ SplitFrame

\* split() gives one document per range; several documents go to a ZIP
\* archive, each appended under its entry name, a single one is the output
\* as it is.
SplitArchive ==
  /\ spc = "split"
  /\ IF Len(rangesToSplit) > 1
       THEN /\ entries' = [i \in 1..Len(rangesToSplit) |-> EntryName(rangesToSplit[i])]
            /\ spc' = "zip"
       ELSE /\ spc' = "pdf"
            /\ UNCHANGED entries
  /\ UNCHANGED rangesToSplit
  /\ SplitFrame

NextSplit ==
  \/ SplitParse
  \/ SplitArchive

SpecSplit == InitSplit /\ [][NextSplit]_vars

\* ------------------------------------------------- what the handlers log
\* Both runs get the same scenario; each has its own secret values.
InitLog ==
  /\ InitWith({}, {DefaultArgs})
  /\ InitRequests
  /\ InitMem
  /\ CacheIdle
  /\ SplitIdle
  /\ scenario \in Scenarios
  /\ secretOf \in [Runs -> [password : Secrets, auth : Secrets]]
  /\ lpc = [r \in Runs |-> "start"]
  /\ logs = [r \in Runs |-> << >>]
  /\ stored = [r \in Runs |-> NoError]

\* One step of run r: the lines it writes, the message it stores (the one
\* stored so far when it stores none) and where it goes on.
LogStep(r, lines, message, next) ==
  /\ logs' = [logs EXCEPT ![r] = @ \o lines]
  /\ stored' = [stored EXCEPT ![r] = message]
  /\ lpc' = [lpc EXCEPT ![r] = next]
  /\ UNCHANGED <<scenario, secretOf, dbVars, workerVars, histVars, dlVars, memVars, cacheVars,
                 splitVars, scratch, incRet, gsArgs>>

\* Edge function increment-access-and-cleanup, called by
\* GET /download-proxied-file with the caller's Authorization header (or the
\* anon key): console.log of the URL and then of every request header as
\* `  ${k}: ${v}`, the authorization header among them.
EdgeLogHeaders(r) == << Line("  authorization: ", secretOf[r].auth) >>

EdgeLogRequest(r) ==
  /\ scenario.tool = "download"
  /\ lpc[r] = "start"
  /\ LogStep(r, << Line("--- Edge Function: increment-access-and-cleanup ---", NoSecret),
                    Line("Request URL:", NoSecret),
                    Line("Request Headers:", NoSecret) >>
                 \o EdgeLogHeaders(r)
                 \o << Line("jobId received:", NoSecret) >>,
             stored[r], "env")

\* console.log("SUPABASE_URL:", supabaseUrl) and
\* console.log("SUPABASE_SERVICE_ROLE_KEY present:", !!supabaseServiceRoleKey):
\* of the service-role key only whether it is set.
EdgeLogEnv(r) ==
  /\ scenario.tool = "download"
  /\ lpc[r] = "env"
  /\ LogStep(r, << Line("SUPABASE_URL:", NoSecret),
                    Line("SUPABASE_SERVICE_ROLE_KEY present:", NoSecret) >>,
             stored[r], "done")

\* POST /process-pdf, case compress: compressCommand gets
\* ` --pdfPassword "${pdfPassword}"` when the option is set, and the command
\* is written to console twice before it is executed.
CompressCommand(r) == secretOf[r].password

CompressLogCommand(r) ==
  /\ scenario.tool = "compress"
  /\ lpc[r] = "start"
  /\ LogStep(r, << Line("Executing compress-pdf command: ", CompressCommand(r)),
                    Line("Command being executed: ", CompressCommand(r)) >>,
             stored[r], "done")

\* Worker, case unlockPdf: the password goes to the python3 child as an
\* argument and into no message of the worker's own.
UnlockLogStart(r) ==
  /\ scenario.tool = "unlock"
  /\ lpc[r] = "start"
  /\ LogStep(r, << Line("Processing unlockPdf using Python script", NoSecret) >>,
             stored[r], "python")

\* The child closes with code 0 and the job is marked succeeded, or with
\* another code: the catch block logs the error and stores error.message,
\* `PDF unlock failed (Python script exited with code ${code}). Stderr: ...`.
UnlockOutcome(r) ==
  /\ scenario.tool = "unlock"
  /\ lpc[r] = "python"
  /\ IF scenario.fails
       THEN LogStep(r, << Line("Error processing job", NoSecret) >>, "PDF unlock failed", "done")
       ELSE LogStep(r, << Line("Job completed successfully.", NoSecret) >>, stored[r], "done")

NextLog ==
  \/ \E r \in Runs : EdgeLogRequest(r)
  \/ \E r \in Runs : EdgeLogEnv(r)
  \/ \E r \in Runs : CompressLogCommand(r)
  \/ \E r \in Runs : UnlockLogStart(r)
  \/ \E r \in Runs : UnlockOutcome(r)

SpecLog == InitLog /\ [][NextLog]_vars

\* ================================================================ claims
\* ------------------------------- incrementAccessCountAndCleanup(jobId)
\* The function of lib/supabaseService, called for a job by a caller that
\* keeps what it returns.  What the calls leave unchanged:
IncFrame ==
  UNCHANGED <<rawInputs, jobArgs, workerVars, histVars, memVars, logVars, cacheVars, splitVars,
              scratch, gsArgs, ghostVars, edgeOk, n200, n410, nDone, storageErr>>

\* if (newAccessCount >= 3): delete file and job, else just increment.
DeleteNow(newAccessCount) == newAccessCount >= INCREMENT_LIMIT

\* Step 1: select access_count, file_name, public_url with .single(); with an
\* error or no row the function returns {deleted: false, error}.
IncFetch(j) ==
  /\ Arrives
  /\ nStarted' = nStarted + 1
  /\ \E ok \in BOOLEAN :
       /\ IF ok /\ rows[j].exists
            THEN /\ reqs' = reqs (+) SetToBag({Request("incDecide", j, rows[j].access_count,
                                                       NullUrl)})
                 /\ UNCHANGED incRet
            ELSE /\ incRet' = [incRet EXCEPT ![j] = Append(@, "error")]
                 /\ UNCHANGED reqs
       /\ faulted' = IF ok THEN faulted ELSE faulted \cup {j}
  /\ overlapped' = IF OpenOn(j) # {} THEN overlapped \cup {j} ELSE overlapped
  /\ UNCHANGED <<rows, processed>>
  /\ IncFrame

\* Below the limit: update access_count = newAccessCount, .select().single();
\* {deleted: false, error: updateError} or {deleted: false, error: null}.
IncUpdate(q) ==
  /\ q.pc = "incDecide"
  /\ ~DeleteNow(q.ac + 1)
  /\ LET j == q.job IN
       \E ok \in BOOLEAN :
         /\ rows' = IF ok /\ rows[j].exists
                      THEN [rows EXCEPT ![j].access_count = q.ac + 1] ELSE rows
         /\ incRet' = [incRet EXCEPT ![j] =
                         Append(@, IF ok /\ rows[j].exists THEN "kept" ELSE "error")]
         /\ faulted' = IF ok THEN faulted ELSE faulted \cup {j}
  /\ reqs' = Answered(q)
  /\ UNCHANGED <<processed, nStarted, overlapped>>
  /\ IncFrame

\* At the limit: await deleteProcessingJobAndFile(jobId), whose result is not
\* read.  Its step 1 selects public_url and file_name with .single(); with an
\* error or no row it returns, and the function returns {deleted: true}.
IncDeleteFetch(q) ==
  /\ q.pc = "incDecide"
  /\ DeleteNow(q.ac + 1)
  /\ LET j == q.job IN
       \E ok \in BOOLEAN :
         /\ IF ok /\ rows[j].exists
              THEN /\ reqs' = Moved(q, Request(
                        IF rows[j].public_url # NullUrl /\ rows[j].file_name # NullName
                          THEN "incDelStorage" ELSE "incDelRow",
                        j, q.ac, PublicUrl(j, rows[j].file_name)))
                   /\ UNCHANGED incRet
              ELSE /\ reqs' = Answered(q)
                   /\ incRet' = [incRet EXCEPT ![j] = Append(@, "deleted")]
         /\ faulted' = IF ok THEN faulted ELSE faulted \cup {j}
  /\ UNCHANGED <<rows, processed, nStarted, overlapped>>
  /\ IncFrame

\* deleteProcessingJobAndFile step 2: remove public/{jobId}/{file_name} from
\* processed-pdfs; an error is logged and the row is deleted all the same.
IncDeleteStorage(q) ==
  /\ q.pc = "incDelStorage"
  /\ LET j == q.job IN
       \E ok \in BOOLEAN :
         /\ processed' = IF ok THEN processed \ {UrlPath(q.url)} ELSE processed
         /\ faulted' = IF ok THEN faulted ELSE faulted \cup {j}
  /\ reqs' = Moved(q, [q EXCEPT !.pc = "incDelRow"])
  /\ UNCHANGED <<rows, nStarted, overlapped, incRet>>
  /\ IncFrame

\* deleteProcessingJobAndFile step 3: delete the row; whatever it reports the
\* function returns {deleted: true, error: null}.
IncDeleteRow(q) ==
  /\ q.pc = "incDelRow"
  /\ LET j == q.job IN
       /\ \E ok \in BOOLEAN :
            /\ rows' = IF ok THEN [rows EXCEPT ![j] = AbsentRow] ELSE rows
            /\ faulted' = IF ok THEN faulted ELSE faulted \cup {j}
       /\ incRet' = [incRet EXCEPT ![j] = Append(@, "deleted")]
  /\ reqs' = Answered(q)
  /\ UNCHANGED <<processed, nStarted, overlapped>>
  /\ IncFrame

NextInc ==
  \/ \E j \in Submitted : IncFetch(j)
  \/ \E q \in BagToSet(reqs) : IncUpdate(q)
  \/ \E q \in BagToSet(reqs) : IncDeleteFetch(q)
  \/ \E q \in BagToSet(reqs) : IncDeleteStorage(q)
  \/ \E q \in BagToSet(reqs) : IncDeleteRow(q)

SpecInc == InitDL /\ [][NextInc]_vars

Min(a, b) == IF a < b THEN a ELSE b
Clean(j) == j \notin faulted /\ j \notin overlapped
HasArtifact(j) == \E p \in processed : p.job = j

C2_AtMostThreeNonDeleted ==
  \A j \in JobIds : j \notin faulted => edgeOk[j] <= MaxAccess

\* C3: no job is returned by getPendingJobAndLock to two workers, so
\* executePdfProcessing starts at most once per job and two workers never hold
\* the same job; once the queue is drained every job went to exactly one worker.
C3_ClaimInjective ==
  /\ \A j \in JobIds : execCount[j] <= 1 /\ Cardinality(claimers[j]) <= 1
  /\ \A w1, w2 \in Workers : w1 # w2 /\ cur[w1] # NoJob => cur[w1] # cur[w2]
  /\ PendingJobs = {} => \A j \in JobIds : Cardinality(claimers[j]) = 1

\* Two workers are processing two jobs at the same time.
C3_Witness ==
  \E w1, w2 \in Workers : w1 # w2 /\ cur[w1] # NoJob /\ cur[w2] # NoJob

\* C4: once a row is succeeded or failed, no write changes its status while
\* the row exists.
C4_TerminalAbsorbing ==
  [][\A j \in JobIds :
       (rows[j].exists /\ Terminal(rows[j].status) /\ rows'[j].exists)
         => rows'[j].status = rows[j].status]_vars

\* C5: while a row stays in_progress its progress never goes down.
C5_ProgressMonotone ==
  [][\A j \in JobIds :
       (rows[j].status = "in_progress" /\ rows'[j].status = "in_progress")
         => rows'[j].progress >= rows[j].progress]_vars

C7_SuccessUpdateRetried ==
  [][\A w \in Workers :
       (pc[w] = "succeed" /\ pc'[w] # "succeed") => rows'[cur[w]].status = "succeeded"]_vars

\* C8: when executePdfProcessing has returned, a delete was issued to
\* raw-inputs for every path of input_file_paths and no local file of the job
\* is left.
C8_InputsCleanedUp ==
  \A j \in finished :
    /\ \A i \in 1..jobArgs[j].nIn : <<j, i>> \in rawDelIssued
    /\ \A f \in localFiles : f[2] # j

C10_AccessCountIsServedCount ==
  \A j \in JobIds :
    (rows[j].exists /\ OpenOn(j) = {} /\ j \notin overlapped)
      => rows[j].access_count = n200[j]

\* C12: a row that says succeeded has progress 100 and a row that says failed
\* has progress 0.
C12_TerminalProgress ==
  \A j \in JobIds :
    rows[j].exists =>
      /\ rows[j].status = "succeeded" => rows[j].progress = 100
      /\ rows[j].status = "failed" => rows[j].progress = 0

\* A job that got as far as the upload (progress 80) ended failed.
C12_Witness ==
  \E j \in finished :
    /\ thrown[j] = UploadFailed(FALSE)
    /\ rows[j].exists /\ rows[j].status = "failed"

\* C13: a row with a public_url is succeeded and has a file_name.
C13_UrlImpliesSucceeded ==
  \A j \in JobIds :
    (rows[j].exists /\ rows[j].public_url # NullUrl)
      => (rows[j].status = "succeeded" /\ rows[j].file_name # NullName)

\* C14: a row that carries a worker_id is in_progress.
C14_WorkerIdImpliesInProgress ==
  \A j \in JobIds :
    (rows[j].exists /\ rows[j].worker_id # NoWorker) => rows[j].status = "in_progress"

\* C15: while a row is pending or in_progress every raw input of the job is in
\* the raw-inputs bucket.
C15_RawInputsKeptUntilTerminal ==
  \A j \in JobIds :
    (rows[j].exists /\ rows[j].status \in {"pending", "in_progress"})
      => \A i \in 1..jobArgs[j].nIn : <<j, i>> \in rawInputs

\* C11: the access_count of every row is between 0 and 3.
C11_AccessCountBounded ==
  \A j \in JobIds :
    rows[j].exists => (0 <= rows[j].access_count /\ rows[j].access_count <= MaxAccess)

\* C19: a GET /download-proxied-file for a job that is absent or has no
\* public_url is answered 404 by the route, which calls no edge function and
\* changes neither the table nor the buckets.
C19_NotFoundChangesNothing ==
  [][\A j \in JobIds :
       (nGet'[j] # nGet[j] /\ ~(rows[j].exists /\ rows[j].public_url # NullUrl))
         => /\ n404'[j] = n404[j] + 1
            /\ UNCHANGED <<rows, processed, rawInputs, edgeCalls, reqs>>]_vars

\* Both cases were answered: a row without public_url and an absent row.
C19_Witness ==
  /\ \E j \in JobIds : rows[j].exists /\ rows[j].public_url = NullUrl /\ n404[j] > 0
  /\ ~rows[FirstJob].exists /\ n404[FirstJob] > 0

\* C16: the cleanup removes from processingJobs only jobs that are succeeded
\* or failed, whatever their age.
C16_SweepOnlyTerminal ==
  [][\A id \in PostIds :
       (processingJobs[id].exists /\ ~processingJobs'[id].exists)
         => processingJobs[id].status \in {"succeeded", "failed"}]_vars

\* The last cleanup ran over an active job older than JOB_ACCESS_PERIOD and
\* left it in place.
C16_Witness ==
  \E id \in PostIds :
    /\ processingJobs[id].exists /\ processingJobs[id].status = "active"
    /\ timers > 0
    /\ (nextTick - CLEANUP_INTERVAL) - processingJobs[id].timestamp > JOB_ACCESS_PERIOD

\* C17: a job that became succeeded or failed JOB_ACCESS_PERIOD + 1 minutes
\* ago or earlier is no longer returned by the status endpoint.
C17_RetentionBound ==
  \A id \in PostIds :
    (posts[id].added /\ apc[id] \in {"finally", "done"}
       /\ now - processingJobs[id].timestamp >= JOB_ACCESS_PERIOD + 1)
      => StatusCode(id) = 404

\* C18: however often startCleanupService has been called, the process has
\* exactly one cleanup timer.
C18_StartIdempotent ==
  /\ timers <= 1
  /\ startCalls > 0 => timers = 1

\* startCleanupService was called more than once.
C18_Witness == startCalls > 1 /\ timers = 1

\* C20: a POST /process-pdf without toolId, and one without files, is answered
\* 400 and adds no job.
C20_BadRequestRejected ==
  \A id \in PostIds :
    (posts[id].received /\ (~posts[id].toolId \/ posts[id].nFiles = 0))
      => (posts[id].code = 400 /\ ~posts[id].added)

\* C21: a DELETE /delete-processed-file for a job id, received after an
\* earlier DELETE of the same id answered 200 and with row and artifact both
\* absent, is answered 200 as well (never 500).
C21_DeleteIdempotent == \A j \in JobIds : delHist[j] # "refused"

\* C22: a subprocess that has not exited when the soft timeout of its tool
\* has elapsed is killed and its job is marked failed: no worker is still
\* waiting for a subprocess that is past the soft timeout.
C22_KilledAtSoftTimeout == \A w \in Workers : subproc[w] # "overdue"

\* C23: the console output and the stored error message of two runs of the
\* same request or job that differ only in the password and in the
\* Authorization value are the same: no secret value is written to a log line
\* or stored in error_message.
C23_SecretsNotLogged ==
  (\A r \in Runs : lpc[r] = "done")
    => (logs["a"] = logs["b"] /\ stored["a"] = stored["b"])

\* C24: a worker gets a job from getPendingJobAndLock only when every job it
\* got before is recorded as succeeded or failed in the table.
C24_OneUnfinishedJobPerWorker ==
  \A w \in Workers :
    cur[w] # NoJob
      => \A j \in JobIds \ {cur[w]} :
           (w \in claimers[j] /\ rows[j].exists) => Terminal(rows[j].status)

\* C25: every run of a job uploads its output to the same path, and no run
\* fails because that path already holds the output of an earlier run.
C25_RerunUploadsSamePath ==
  /\ \A p, q \in processed : p.job = q.job => p = q
  /\ \A j \in JobIds : thrown[j] # UploadFailed(TRUE)

\* C26: the artifact a worker uploaded before it crashed, with the job not
\* marked succeeded, is deleted by the retention sweep: once the cleanup
\* service, running since time 0, has made a run later than the retention
\* window after the crash, no such orphan artifact is left.
C26_OrphanReclaimed ==
  \A j \in JobIds :
    (timers > 0 /\ nextTick > JOB_ACCESS_PERIOD + CLEANUP_INTERVAL) => ~Orphan(j)

\* C27: an output file held in processedFilesCache is served by
\* GET /download-processed-file at most ACCESS_THRESHOLD times in all,
\* whether or not the requests overlap.
C27_CachedFileServedAtMostThrice == \A f \in PostIds : served[f] <= ACCESS_THRESHOLD

\* C28: an unlockPdf job with one input file and an empty or absent password
\* is not failed for lack of a password, while a protectPdf job with one
\* input file and an empty password, once processed, has been failed for it.
C28_UnlockAcceptsEmptyPassword ==
  \A j \in JobIds :
    /\ (jobArgs[j].tool = "unlockPdf" /\ ~jobArgs[j].password)
         => thrown[j] # "Password is required to unlock the PDF."
    /\ (jobArgs[j].tool = "protectPdf" /\ ~jobArgs[j].password /\ j \in finished)
         => thrown[j] \in {"Password is required to protect the PDF.", UploadFailed(FALSE),
                           "Failed to download file from storage"}

\* C29: in the ZIP of a split with several ranges the entry of a range of
\* one page p is named split_page_{p}.pdf and the entry of a range a-b of
\* several pages is named pages_{a}-{b}.pdf.
C29_ZipEntryNames ==
  spc = "zip"
    => \A i \in 1..Len(entries) :
         LET r == rangesToSplit[i]
         IN entries[i] =
              IF r.start = r.end
                THEN [prefix |-> "split_page_", first |-> r.start + 1, last |-> r.start + 1]
                ELSE [prefix |-> "pages_", first |-> r.start + 1, last |-> r.end + 1]

\* C30: a split job whose pageRange holds an invalid item and whose handler
\* got as far as the validation of the range has, once it is processed, a row
\* with status failed and an error message, and no output artifact in storage.
C30_InvalidRangeFails ==
  \A j \in JobIds :
    (jobArgs[j].tool = "split" /\ ~jobArgs[j].rangeOk /\ j \in finished
       /\ thrown[j] = "Invalid range format")
      => /\ rows[j].status = "failed"
         /\ rows[j].error_message # NoError
         /\ ~HasArtifact(j)

\* C31: whenever a worker has Ghostscript running for a compress job, the
\* preset and the tweak it was started with are those of the profile table:
\* low -> printer, 100, 300/300/300; medium -> ebook, 70, 120/120/300;
\* extreme -> screen, 25, 36/36/100; and those of medium when the job gives
\* no compressionLevel.
C31_ProfileTable ==
  \A w \in Workers :
    (cur[w] # NoJob /\ jobArgs[cur[w]].tool = "compress" /\ subproc[w] # "none") =>
      LET level == jobArgs[cur[w]].level IN
        /\ level = "low" =>
             gsArgs[w] = [preset |-> "printer", jpegQ |-> 100, colorDpi |-> 300,
                          grayDpi |-> 300, monoDpi |-> 300]
        /\ level \in {"medium", "absent"} =>
             gsArgs[w] = [preset |-> "ebook", jpegQ |-> 70, colorDpi |-> 120,
                          grayDpi |-> 120, monoDpi |-> 300]
        /\ level = "extreme" =>
             gsArgs[w] = [preset |-> "screen", jpegQ |-> 25, colorDpi |-> 36,
                          grayDpi |-> 36, monoDpi |-> 100]

\* Ghostscript runs with the ebook preset for a job that gave no level.
C31_Witness ==
  \E w \in Workers :
    /\ cur[w] # NoJob
    /\ jobArgs[cur[w]].tool = "compress"
    /\ jobArgs[cur[w]].level = "absent"
    /\ subproc[w] = "running"
    /\ gsArgs[w].preset = "ebook"


\* C32: once executePdfProcessing has returned for a job, on success and on
\* failure, the path its handler's subprocess wrote to (the Ghostscript
\* output, the output file or directory of a Python helper) holds nothing.
C32_ScratchDeleted ==
  \A j \in finished : ScratchPath(j, jobArgs[j]) \notin scratch


\* C33: incrementAccessCountAndCleanup is called for a job whose access_count
\* starts at 0, each call after the one before has returned and no database
\* or storage call failing: the first three calls return deleted = false and
\* leave access_count 1, 2, 3, the fourth returns deleted = true and leaves
\* neither the artifact nor the row.
C33_FourthCallDeletes ==
  Clean(FirstJob) =>
    LET ret == incRet[FirstJob] IN
      /\ \A i \in 1..Len(ret) : ret[i] = IF i <= MaxAccess THEN "kept" ELSE "deleted"
      /\ (Len(ret) <= MaxAccess /\ OpenOn(FirstJob) = {}) =>
           (rows[FirstJob].exists /\ rows[FirstJob].access_count = Len(ret))
      /\ Len(ret) = MaxAccess + 1 => (~rows[FirstJob].exists /\ ~HasArtifact(FirstJob))


\* C34: a job whose number of input files does not match the arity of its
\* tool (merge: fewer than 2; img2pdf: fewer than 1; every other tool: not 1)
\* has no artifact once executePdfProcessing has returned, and what was
\* thrown for it is the error of the arity check or of a download before it
\* (the handler did not run); when its inputs were downloaded and the arity
\* check has thrown, its status is failed.
C34_ArityMismatchFails ==
  \A j \in finished :
    LET a == jobArgs[j]
        mismatch == IF a.tool = "merge" THEN a.nIn < 2
                    ELSE IF a.tool = "img2pdf" THEN a.nIn < 1 ELSE a.nIn # 1
    IN mismatch =>
         /\ thrown[j] \in {"Failed to download file from storage", Script(a)[1].msg}
         /\ ~HasArtifact(j)
         /\ thrown[j] = Script(a)[1].msg => rows[j].status = "failed"


\* C35: every job a worker has claimed reaches status succeeded or failed,
\* also when an update of the row returns an error.  The worker writes the
\* row of a job only inside executePdfProcessing, and no job is claimed twice:
\* a job reaches a terminal status only if the row says so when
\* executePdfProcessing returns for it.
C35_ClaimedJobEndsTerminal ==
  \A j \in finished : Terminal(rows[j].status)


HostArgs ==
  {[a EXCEPT !.fname = n] :
     a \in {b \in JobArgSet : b.tool \in {"addWatermark", "addPageNumbers"} /\ b.nIn = 1},
     n \in 1..NumNames}

InitHost ==
  /\ InitWith(JobIds, HostArgs)
  /\ \A j, k \in JobIds : jobArgs[j].tool = jobArgs[k].tool
  /\ InitRequests
  /\ InitMem
  /\ InitAux

\* The steps of workers that process such jobs (both cases issue their
\* updates of 20 and 80 without await).
NextHost ==
  \/ \E w \in Workers :
       \/ WorkerPoll(w)
       \/ WorkerDownload(w)
       \/ WorkerUpd10(w)
       \/ WorkerCheck(w)
       \/ WorkerFireUpdate(w)
       \/ WorkerCall(w)
       \/ WorkerSpawn(w)
       \/ SoftTimeoutElapses(w)
       \/ SubprocessClose(w)
       \/ WorkerUpload(w)
       \/ WorkerMarkSucceeded(w)
       \/ WorkerCatch(w)
       \/ WorkerFinally(w)
       \/ WorkerReturn(w)
  \/ DeliverUpdate

SpecHost == InitHost /\ [][NextHost]_vars

\* C38: two jobs that are processed at the same time by two workers on one
\* host never write to the same scratch path, even when their input files
\* have the same original file name: whenever the subprocesses of two workers
\* are running, the paths they write their outputs to differ.
C38_DistinctScratchPaths ==
  \A w1, w2 \in Workers :
    (w1 # w2 /\ subproc[w1] # "none" /\ subproc[w2] # "none")
      => ScratchPath(cur[w1], jobArgs[cur[w1]]) # ScratchPath(cur[w2], jobArgs[cur[w2]])
====
